---- MODULE Spec2Model ----
(***************************************************************************)
(* Workout-log ingestion of artpar/vibe_coding_workout:                    *)
(*   src/utils/calculations.py     calculate_1rm, standardize_exercise_name*)
(*   src/models/data_processor.py  DataProcessor (upload, detect, load)    *)
(*                                                                         *)
(* A CSV cell is a record [t, n, s]: t is what pandas read it as ("num",   *)
(* "str", "nan"), n the number, s the text as a sequence of characters.    *)
(* A date text keeps the format it is written in as s and its digits       *)
(* DDHHMM as n.  A DataFrame is [cols, rows, index]: rows are functions    *)
(* from column name to cell, index the row labels.  Weights and reps are   *)
(* whole numbers; one_rm is held in thirtieths of a kilogram so that       *)
(* weight * (1 + reps/30) stays exact.                                     *)
(***************************************************************************)
EXTENDS Integers, Sequences, FiniteSets, TLC

\* Raw rows on disk, the default files and the uploads together.
MaxRows == 2
\* Files the uploads directory may hold.
MaxUploads == 1
\* Seconds the wall clock steps through.
MaxClock == 2
\* Fragments an exercise name given to the normalizer is put together from.
MaxWords == 2
\* The greatest limit get_top_sets is asked for.
MaxLimit == 2
\* Files the uploads directory holds from earlier runs when the program starts.
MaxStored == 2
\* The heaviest weight, in kilograms, calculate_1rm is given, up or down from 0.
MaxWeight == 10
\* The most reps calculate_1rm is given, up or down from 0.
MaxReps == 10

VARIABLES default_files, uploads, clock, last_call,
          outcome, combined_df, hevy_df, strong_df, jefit_df,
          uploaded_file, source_type, save_ret,
          raw_name, standard_name,
          analyzed_df, call, result,
          argsort_seen, cache,
          lift, one_rm

vars == <<default_files, uploads, clock, last_call,
          outcome, combined_df, hevy_df, strong_df, jefit_df,
          uploaded_file, source_type, save_ret,
          raw_name, standard_name,
          analyzed_df, call, result,
          argsort_seen, cache,
          lift, one_rm>>

load_vars == <<outcome, combined_df, hevy_df, strong_df, jefit_df>>
save_vars == <<uploaded_file, source_type, save_ret>>
name_vars == <<raw_name, standard_name>>
query_vars == <<analyzed_df, call, result>>
run_vars == <<argsort_seen, cache>>
calc_vars == <<lift, one_rm>>

None == "None"

-----------------------------------------------------------------------------
(* Cells *)

Num(n) == [t |-> "num", n |-> n, s |-> <<>>]
Str(s) == [t |-> "str", n |-> 0, s |-> s]
NaN == [t |-> "nan", n |-> 0, s |-> <<>>]
Timestamp(minutes) == [t |-> "ts", n |-> minutes, s |-> <<>>]

HevyFormat == "%d %b %Y, %H:%M"
IsoFormat == "%Y-%m-%d %H:%M:%S"

\* The text of day d, h:m written in format fmt.
DateText(fmt, d, h, m) == [t |-> "str", n |-> d * 10000 + h * 100 + m, s |-> <<fmt>>]

-----------------------------------------------------------------------------
(* Text *)

UpperCase == <<"A","B","C","D","E","F","G","H","I","J","K","L","M",
               "N","O","P","Q","R","S","T","U","V","W","X","Y","Z">>
LowerCase == <<"a","b","c","d","e","f","g","h","i","j","k","l","m",
               "n","o","p","q","r","s","t","u","v","w","x","y","z">>

\* str.lower()
Lower(s) ==
    [i \in 1..Len(s) |->
        IF \E k \in 1..Len(UpperCase) : UpperCase[k] = s[i]
        THEN LowerCase[CHOOSE k \in 1..Len(UpperCase) : UpperCase[k] = s[i]]
        ELSE s[i]]

\* sub in s
Contains(s, sub) ==
    \E i \in 1..(Len(s) - Len(sub) + 1) : SubSeq(s, i, i + Len(sub) - 1) = sub

\* str.split(sep): the pieces between the separators, empty pieces kept.
RECURSIVE Split(_, _)
Split(s, sep) ==
    IF \A i \in 1..Len(s) : s[i] # sep
    THEN <<s>>
    ELSE LET k == CHOOSE i \in 1..Len(s) :
                      s[i] = sep /\ \A j \in 1..(i - 1) : s[j] # sep
         IN <<SubSeq(s, 1, k - 1)>> \o Split(SubSeq(s, k + 1, Len(s)), sep)

\* str.strip()
RECURSIVE Strip(_)
Strip(s) ==
    IF s = <<>> THEN s
    ELSE IF Head(s) = " " THEN Strip(Tail(s))
    ELSE IF s[Len(s)] = " " THEN Strip(SubSeq(s, 1, Len(s) - 1))
    ELSE s

Digits == <<"0","1","2","3","4","5","6","7","8","9">>
IsDigit(c) == \E k \in 1..Len(Digits) : Digits[k] = c
DigitVal(c) == (CHOOSE k \in 1..Len(Digits) : Digits[k] = c) - 1

RECURSIVE DecimalVal(_)
DecimalVal(s) ==
    IF s = <<>> THEN 0
    ELSE DecimalVal(SubSeq(s, 1, Len(s) - 1)) * 10 + DigitVal(s[Len(s)])

\* float(s) succeeds: surrounding blanks are dropped, an optional sign, then digits.
FloatOk(s) ==
    LET u == Strip(s)
        d == IF u # <<>> /\ Head(u) = "-" THEN Tail(u) ELSE u
    IN d # <<>> /\ \A i \in 1..Len(d) : IsDigit(d[i])

\* float(s)
Float(s) ==
    LET u == Strip(s)
    IN IF Head(u) = "-" THEN 0 - DecimalVal(Tail(u)) ELSE DecimalVal(u)

-----------------------------------------------------------------------------
(* utils/calculations.py *)

\* Variant: the division applied to the whole sum, weight * (1 + reps) / 30.
calculate_1rm_whole_sum_divided(weight, reps) == weight * (1 + reps)

\* Variant: the reps take from the weight, weight * (1 - reps/30).
calculate_1rm_reps_taken_off(weight, reps) == weight * (30 - reps)

\* weight * (1 + reps/30), in thirtieths of a kilogram.
calculate_1rm(weight, reps) == weight * (30 + reps)

LatPulldownRule == <<"l","a","t"," ","p","u","l","l","d","o","w","n">>
BarbellBenchRule == <<"b","a","r","b","e","l","l"," ","b","e","n","c","h"," ","p","r","e","s","s">>
BenchBarbellRule == <<"b","e","n","c","h"," ","p","r","e","s","s"," ","(","b","a","r","b","e","l","l",")">>
DumbbellBenchRule == <<"d","u","m","b","b","e","l","l"," ","b","e","n","c","h"," ","p","r","e","s","s">>
BenchDumbbellRule == <<"b","e","n","c","h"," ","p","r","e","s","s"," ","(","d","u","m","b","b","e","l","l",")">>
LatPulldownName == <<"L","a","t"," ","P","u","l","l","d","o","w","n"," ","(","A","l","l"," ","V","a","r","i","a","t","i","o","n","s",")">>
BarbellBenchName == <<"B","a","r","b","e","l","l"," ","B","e","n","c","h"," ","P","r","e","s","s">>
DumbbellBenchName == <<"D","u","m","b","b","e","l","l"," ","B","e","n","c","h"," ","P","r","e","s","s">>

\* Variant: the barbell rules give the name 'Barbell Bench', which no rule matches.
standardize_exercise_name_barbell_bench(exercise) ==
    LET e == Lower(exercise)
    IN IF Contains(e, LatPulldownRule) THEN LatPulldownName
       ELSE IF Contains(e, BarbellBenchRule) \/ Contains(e, BenchBarbellRule)
            THEN SubSeq(BarbellBenchName, 1, 13)
       ELSE IF Contains(e, DumbbellBenchRule) \/ Contains(e, BenchDumbbellRule)
            THEN DumbbellBenchName
       ELSE e

\* Variant: the bench press rules are tried before the lat pulldown rule.
standardize_exercise_name_bench_first(exercise) ==
    LET e == Lower(exercise)
    IN IF Contains(e, BarbellBenchRule) \/ Contains(e, BenchBarbellRule)
       THEN BarbellBenchName
       ELSE IF Contains(e, DumbbellBenchRule) \/ Contains(e, BenchDumbbellRule)
            THEN DumbbellBenchName
       ELSE IF Contains(e, LatPulldownRule) THEN LatPulldownName
       ELSE e

standardize_exercise_name(exercise) ==
    LET e == Lower(exercise)
    IN IF Contains(e, LatPulldownRule) THEN LatPulldownName
       ELSE IF Contains(e, BarbellBenchRule) \/ Contains(e, BenchBarbellRule)
            THEN BarbellBenchName
       ELSE IF Contains(e, DumbbellBenchRule) \/ Contains(e, BenchDumbbellRule)
            THEN DumbbellBenchName
       ELSE e

-----------------------------------------------------------------------------
(* Raw inputs: CSV files and the rows they are drawn from *)

Sources == {"hevy", "strong", "jefit"}

AbsentFile == [kind |-> "absent", cols |-> {}, rows |-> <<>>]
\* A file of zero bytes.
ZeroByteFile == [kind |-> "zero", cols |-> {}, rows |-> <<>>]
CsvFile(cols, rows) == [kind |-> "csv", cols |-> cols, rows |-> rows]

BenchPressBarbell == <<"B","e","n","c","h"," ","P","r","e","s","s"," ","(","B","a","r","b","e","l","l",")">>
LatPulldownCable == <<"L","a","t"," ","P","u","l","l","d","o","w","n"," ","(","C","a","b","l","e",")">>
Squat == <<"S","q","u","a","t">>
Junk == <<"a","b","c">>

HevyCols == {"start_time", "exercise_title", "weight_kg", "reps", "set_index"}
StrongCols == {"Date", "Exercise Name", "Weight", "Reps", "Set Order"}
JefitCols == {"mydate", "ename", "logs"}

HevyRow(start, title, weight, reps, set_index) ==
    ("start_time" :> start) @@ ("exercise_title" :> title) @@
    ("weight_kg" :> weight) @@ ("reps" :> reps) @@ ("set_index" :> set_index)

StrongRow(date, name, weight, reps, set_order) ==
    ("Date" :> date) @@ ("Exercise Name" :> name) @@
    ("Weight" :> weight) @@ ("Reps" :> reps) @@ ("Set Order" :> set_order)

JefitRow(mydate, ename, logs) ==
    ("mydate" :> mydate) @@ ("ename" :> ename) @@ ("logs" :> logs)

\* Hevy rows: two well-formed ones on different days, one with an unparseable date.
HevyRows ==
    << HevyRow(DateText(HevyFormat, 2, 10, 30), Str(BenchPressBarbell), Num(100), Num(5), Num(0)),
       HevyRow(DateText(HevyFormat, 1, 18, 0), Str(LatPulldownCable), Num(50), Num(10), Num(1)),
       HevyRow(Str(Junk), Str(Squat), Num(60), Num(8), Num(0)) >>

\* Strong rows: the second Hevy set logged again, a later one, one with text for reps.
StrongRows ==
    << StrongRow(DateText(IsoFormat, 1, 18, 0), Str(LatPulldownCable), Num(50), Num(10), Num(2)),
       StrongRow(DateText(IsoFormat, 3, 9, 0), Str(Squat), Num(80), Num(3), Num(1)),
       StrongRow(DateText(IsoFormat, 1, 7, 0), Str(Squat), Num(70), Str(Junk), Num(1)) >>

\* Jefit rows: "100x10,,80x12", " , ", " 50x10, ", "60", "60x8x2", "ax5"
\* and a row whose logs cell is empty.
JefitRows ==
    << JefitRow(DateText(IsoFormat, 1, 0, 0), Str(Squat),
                Str(<<"1","0","0","x","1","0",",",",","8","0","x","1","2">>)),
       JefitRow(DateText(IsoFormat, 2, 0, 0), Str(Squat), Str(<<" ",","," ">>)),
       JefitRow(DateText(IsoFormat, 2, 0, 0), Str(BenchPressBarbell),
                Str(<<" ","5","0","x","1","0",","," ">>)),
       JefitRow(DateText(IsoFormat, 1, 0, 0), Str(Squat), Str(<<"6","0">>)),
       JefitRow(DateText(IsoFormat, 1, 0, 0), Str(Squat), Str(<<"6","0","x","8","x","2">>)),
       JefitRow(DateText(IsoFormat, 1, 0, 0), Str(Squat), Str(<<"a","x","5">>)),
       JefitRow(DateText(IsoFormat, 1, 0, 0), Str(Squat), NaN) >>

RawCols(src) ==
    CASE src = "hevy" -> HevyCols [] src = "strong" -> StrongCols [] src = "jefit" -> JefitCols

RawRows(src) ==
    CASE src = "hevy" -> HevyRows [] src = "strong" -> StrongRows [] src = "jefit" -> JefitRows

\* The files of a source with exactly n rows, each row of the source at most
\* once; with no row, the file may also be missing or hold no byte at all.
FilesWithRows(src, n) ==
    { CsvFile(RawCols(src), [i \in 1..n |-> RawRows(src)[ix[i]]]) :
          ix \in {f \in [1..n -> 1..Len(RawRows(src))] :
                     \A i, j \in 1..n : f[i] = f[j] => i = j} }
    \cup (IF n = 0 THEN {AbsentFile, ZeroByteFile} ELSE {})

-----------------------------------------------------------------------------
(* DataFrames *)

\* pd.DataFrame()
EmptyDataFrame == [cols |-> {}, rows |-> <<>>, index |-> <<>>]

RangeIndex(n) == [i \in 1..n |-> i - 1]

\* DataFrame.empty
empty(df) == df.cols = {} \/ df.rows = <<>>

\* pd.read_csv raises EmptyDataError on a file without any byte.
ReadCsvFails(file) == file.kind = "zero"

\* pd.read_csv
read_csv(file) ==
    [cols |-> file.cols, rows |-> file.rows, index |-> RangeIndex(Len(file.rows))]

\* A row widened to cols; the cells it does not have are NaN.
Pad(row, cols) == [c \in cols |-> IF c \in DOMAIN row THEN row[c] ELSE NaN]

RECURSIVE ConcatRows(_, _)
ConcatRows(dfs, cols) ==
    IF dfs = <<>> THEN <<>>
    ELSE [i \in 1..Len(Head(dfs).rows) |-> Pad(Head(dfs).rows[i], cols)]
         \o ConcatRows(Tail(dfs), cols)

RECURSIVE ConcatIndex(_)
ConcatIndex(dfs) ==
    IF dfs = <<>> THEN <<>> ELSE Head(dfs).index \o ConcatIndex(Tail(dfs))

\* pd.concat(dfs, ignore_index=...)
concat(dfs, ignore_index) ==
    LET cols == UNION {dfs[i].cols : i \in 1..Len(dfs)}
        rows == ConcatRows(dfs, cols)
    IN [cols |-> cols, rows |-> rows,
        index |-> IF ignore_index THEN RangeIndex(Len(rows)) ELSE ConcatIndex(dfs)]

\* df[columns]
SelectColumns(df, columns) ==
    [cols |-> columns,
     rows |-> [i \in 1..Len(df.rows) |-> [c \in columns |-> df.rows[i][c]]],
     index |-> df.index]

\* df[column] = values, one cell per row.
Assign(df, column, values) ==
    [cols |-> df.cols \cup {column},
     rows |-> [i \in 1..Len(df.rows) |-> (column :> values[i]) @@ df.rows[i]],
     index |-> df.index]

\* The cells of one column, in row order.
Column(df, column) == [i \in 1..Len(df.rows) |-> df.rows[i][column]]

-----------------------------------------------------------------------------
(* pd.to_datetime *)

\* The text parses: with a format, only a text written in it; without one,
\* any date text.  A missing cell is no error (it becomes NaT).
ToDatetimeOk(cell, format) ==
    \/ cell.t = "nan"
    \/ /\ cell.t = "str"
       /\ IF format # "" THEN cell.s = <<format>>
          ELSE cell.s \in {<<HevyFormat>>, <<IsoFormat>>}

NaT == [t |-> "nat", n |-> 0, s |-> <<>>]

\* Minutes since day 0 of a date text with digits DDHHMM.
ToDatetime(cell) ==
    IF cell.t = "nan" THEN NaT
    ELSE Timestamp((cell.n \div 10000) * (24 * 60)
                   + ((cell.n \div 100) % 100) * 60 + (cell.n % 100))

-----------------------------------------------------------------------------
(* DataProcessor.load_data, stage by stage.  A stage gives [err, df]: err is
   the exception it raises ("" when it raises none), df the frame it leaves. *)

Raise(e) == [err |-> e, df |-> EmptyDataFrame]
Ok(df) == [err |-> "", df |-> df]

Rows(df) == 1..Len(df.rows)

\* df[column].apply(standardize_exercise_name)
StandardNames(df, column) ==
    [i \in Rows(df) |-> Str(standardize_exercise_name(df.rows[i][column].s))]

\* Variant: the set index is kept as it is, counted from 0.
SetNumberFromZero(set_index) ==
    IF set_index.t = "num" THEN Num(set_index.n) ELSE NaN

\* Line 112 on one cell: set_index + 1; a missing index stays missing.
SetNumber(set_index) ==
    IF set_index.t = "num" THEN Num(set_index.n + 1) ELSE NaN

\* Lines 109-113.
HevyColumns(df) ==
    IF "start_time" \notin df.cols THEN Raise("KeyError")
    ELSE IF \E i \in Rows(df) : ~ToDatetimeOk(df.rows[i]["start_time"], HevyFormat)
         THEN Raise("ValueError")
    ELSE IF "exercise_title" \notin df.cols THEN Raise("KeyError")
    ELSE IF \E i \in Rows(df) : df.rows[i]["exercise_title"].t # "str"
         THEN Raise("AttributeError")
    ELSE IF "weight_kg" \notin df.cols \/ "set_index" \notin df.cols THEN Raise("KeyError")
    ELSE IF \E i \in Rows(df) : df.rows[i]["set_index"].t = "str" THEN Raise("TypeError")
    ELSE LET d1 == Assign(df, "date", [i \in Rows(df) |-> ToDatetime(df.rows[i]["start_time"])])
             d2 == Assign(d1, "exercise", StandardNames(d1, "exercise_title"))
             d3 == Assign(d2, "weight", Column(d2, "weight_kg"))
             d4 == Assign(d3, "set_number",
                          [i \in Rows(d3) |-> SetNumber(d3.rows[i]["set_index"])])
         IN Ok(Assign(d4, "source", [i \in Rows(d4) |-> Str(<<"Hevy">>)]))

\* Lines 107-113.
StandardizeHevy(df) == IF empty(df) THEN Ok(df) ELSE HevyColumns(df)

\* Lines 117-122.
StrongColumns(df) ==
    IF "Date" \notin df.cols THEN Raise("KeyError")
    ELSE IF \E i \in Rows(df) : ~ToDatetimeOk(df.rows[i]["Date"], "")
         THEN Raise("ValueError")
    ELSE IF "Exercise Name" \notin df.cols THEN Raise("KeyError")
    ELSE IF \E i \in Rows(df) : df.rows[i]["Exercise Name"].t # "str"
         THEN Raise("AttributeError")
    ELSE IF ~({"Weight", "Reps", "Set Order"} \subseteq df.cols) THEN Raise("KeyError")
    ELSE LET d1 == Assign(df, "date", [i \in Rows(df) |-> ToDatetime(df.rows[i]["Date"])])
             d2 == Assign(d1, "exercise", StandardNames(d1, "Exercise Name"))
             d3 == Assign(d2, "weight", Column(d2, "Weight"))
             d4 == Assign(d3, "reps", Column(d3, "Reps"))
             d5 == Assign(d4, "set_number", Column(d4, "Set Order"))
         IN Ok(Assign(d5, "source", [i \in Rows(d5) |-> Str(<<"Strong">>)]))

\* Lines 115-122.
StandardizeStrong(df) == IF empty(df) THEN Ok(df) ELSE StrongColumns(df)

\* Line 136 succeeds on a token: it splits on "x" into exactly two numbers.
TokenParses(set_info) ==
    LET parts == Split(set_info, "x")
    IN Len(parts) = 2 /\ FloatOk(parts[1]) /\ FloatOk(parts[2])

\* Lines 137-139: the record of the token at zero-based position i.
SetRecord(row, set_info, i) ==
    LET parts == Split(set_info, "x")
    IN ("date" :> row["date"]) @@ ("exercise" :> row["exercise"]) @@
       ("weight" :> Num(Float(parts[1]))) @@ ("reps" :> Num(Float(parts[2]))) @@
       ("set_number" :> Num(i + 1)) @@ ("source" :> Str(<<"Jefit">>))

\* Variant: the sets are numbered by their count, blanks not counted.
ExpandRowRenumbered(row) ==
    LET sets == Split(row["logs"].s, ",")
        kept == SelectSeq([i \in 1..Len(sets) |-> i], LAMBDA i : Strip(sets[i]) # <<>>)
    IN [k \in 1..Len(kept) |-> SetRecord(row, sets[kept[k]], k - 1)]

\* Lines 133-139 on one row: a record for every token that is not blank.
ExpandRow(row) ==
    LET sets == Split(row["logs"].s, ",")
        kept == SelectSeq([i \in 1..Len(sets) |-> i], LAMBDA i : Strip(sets[i]) # <<>>)
    IN [k \in 1..Len(kept) |-> SetRecord(row, sets[kept[k]], kept[k] - 1)]

\* The exception lines 133-136 raise on a row, "" when they raise none.
ExpandRowError(row) ==
    IF row["logs"].t # "str" THEN "AttributeError"
    ELSE LET sets == Split(row["logs"].s, ",")
         IN IF \E i \in 1..Len(sets) : Strip(sets[i]) # <<>> /\ ~TokenParses(sets[i])
            THEN "ValueError" ELSE ""

RECURSIVE ExpandRows(_)
ExpandRows(rows) ==
    IF rows = <<>> THEN <<>> ELSE ExpandRow(Head(rows)) \o ExpandRows(Tail(rows))

\* Variant: a token that does not parse is passed over like a blank one.
ExpandJefitSkipsBadTokens(rows) ==
    LET lenient(row) ==
            LET sets == Split(row["logs"].s, ",")
                kept == SelectSeq([i \in 1..Len(sets) |-> i],
                                  LAMBDA i : Strip(sets[i]) # <<>> /\ TokenParses(sets[i]))
            IN [k \in 1..Len(kept) |-> SetRecord(row, sets[kept[k]], kept[k] - 1)]
        RECURSIVE all(_)
        all(rs) == IF rs = <<>> THEN <<>> ELSE lenient(Head(rs)) \o all(Tail(rs))
    IN IF \E i \in 1..Len(rows) : rows[i]["logs"].t # "str"
       THEN [err |-> "AttributeError", rows |-> <<>>]
       ELSE [err |-> "", rows |-> all(rows)]

\* Lines 131-139: the loop over the rows.  It raises what the first row that
\* fails raises; else it leaves the records of all rows, in row order.
ExpandJefit(rows) ==
    LET bad == {i \in 1..Len(rows) : ExpandRowError(rows[i]) # ""}
    IN IF bad # {}
       THEN [err |-> ExpandRowError(rows[CHOOSE i \in bad : \A j \in bad : i <= j]),
             rows |-> <<>>]
       ELSE [err |-> "", rows |-> ExpandRows(rows)]

\* Lines 126-141.
JefitRecords(df) ==
    IF "mydate" \notin df.cols THEN Raise("KeyError")
    ELSE IF \E i \in Rows(df) : ~ToDatetimeOk(df.rows[i]["mydate"], "")
         THEN Raise("ValueError")
    ELSE IF "ename" \notin df.cols THEN Raise("KeyError")
    ELSE IF \E i \in Rows(df) : df.rows[i]["ename"].t # "str"
         THEN Raise("AttributeError")
    ELSE IF "logs" \notin df.cols THEN Raise("KeyError")
    ELSE LET d1 == Assign(df, "date", [i \in Rows(df) |-> ToDatetime(df.rows[i]["mydate"])])
             d2 == Assign(d1, "exercise", StandardNames(d1, "ename"))
             d3 == Assign(d2, "source", [i \in Rows(d2) |-> Str(<<"Jefit">>)])
             jefit_expanded == ExpandJefit(d3.rows)
         IN IF jefit_expanded.err # "" THEN Raise(jefit_expanded.err)
            ELSE IF jefit_expanded.rows # <<>>
                 THEN Ok([cols |-> DOMAIN jefit_expanded.rows[1],
                          rows |-> jefit_expanded.rows,
                          index |-> RangeIndex(Len(jefit_expanded.rows))])
                 ELSE Ok(EmptyDataFrame)

\* Lines 124-141.
StandardizeJefit(df) == IF empty(df) THEN Ok(df) ELSE JefitRecords(df)

common_columns == {"date", "exercise", "weight", "reps", "set_number", "source"}

\* Line 159: calculate_1rm on one row; a missing weight or reps gives NaN.
OneRm(row) ==
    IF row["weight"].t = "num" /\ row["reps"].t = "num"
    THEN Num(calculate_1rm(row["weight"].n, row["reps"].n))
    ELSE NaN

\* Line 159 raises TypeError on a weight or reps that is text.
OneRmFails(df) ==
    \E i \in Rows(df) : df.rows[i]["weight"].t = "str" \/ df.rows[i]["reps"].t = "str"

\* a sorts no later than b; NaT sorts last.
DateLE(a, b) == b.t = "nat" \/ (a.t # "nat" /\ a.n <= b.n)

\* The orders in which a sort that is not stable may leave the positions S:
\* ascending by key, rows of equal key in any order.
RECURSIVE SortedOrders(_, _)
SortedOrders(S, key) ==
    IF S = {} THEN {<<>>}
    ELSE UNION { { <<i>> \o o : o \in SortedOrders(S \ {i}, key) } :
                 i \in {j \in S : \A k \in S : DateLE(key[j], key[k])} }

Reorder(df, order) ==
    [cols |-> df.cols,
     rows |-> [k \in 1..Len(order) |-> df.rows[order[k]]],
     index |-> [k \in 1..Len(order) |-> df.index[order[k]]]]

\* Variant: the frame is left in the order of the concatenation.
sort_values_left_unsorted(df, by) == {df}

\* df.sort_values(by), kind='quicksort': every result it may give.
sort_values(df, by) ==
    { Reorder(df, o) : o \in SortedOrders(Rows(df), Column(df, by)) }

\* Variant: rows equal to an earlier row are dropped after the concatenation.
CombineDropsDuplicates(h, s, j) ==
    LET dfs_to_combine ==
            (IF empty(h) THEN <<>> ELSE <<SelectColumns(h, common_columns)>>)
            \o (IF empty(s) THEN <<>> ELSE <<SelectColumns(s, common_columns)>>)
            \o (IF empty(j) THEN <<>> ELSE <<SelectColumns(j, common_columns)>>)
        all == concat(dfs_to_combine, TRUE)
        first == SelectSeq([i \in 1..Len(all.rows) |-> i],
                           LAMBDA i : \A k \in 1..(i - 1) : all.rows[k] # all.rows[i])
    IN IF dfs_to_combine # <<>>
       THEN [cols |-> all.cols, rows |-> [k \in 1..Len(first) |-> all.rows[first[k]]],
             index |-> [k \in 1..Len(first) |-> all.index[first[k]]]]
       ELSE [cols |-> common_columns, rows |-> <<>>, index |-> <<>>]

\* Lines 143-155: the frames that are not empty, cut to the common columns.
Combine(h, s, j) ==
    LET dfs_to_combine ==
            (IF empty(h) THEN <<>> ELSE <<SelectColumns(h, common_columns)>>)
            \o (IF empty(s) THEN <<>> ELSE <<SelectColumns(s, common_columns)>>)
            \o (IF empty(j) THEN <<>> ELSE <<SelectColumns(j, common_columns)>>)
    IN IF dfs_to_combine # <<>> THEN concat(dfs_to_combine, TRUE)
       ELSE [cols |-> common_columns, rows |-> <<>>, index |-> <<>>]

\* Lines 147-152 raise KeyError when a frame lacks a common column.
CombineFails(h, s, j) ==
    LET lacks(df) == ~empty(df) /\ ~(common_columns \subseteq df.cols)
    IN lacks(h) \/ lacks(s) \/ lacks(j)

\* Lines 157-162: every frame the derived column and the sort may leave.
Derive(combined) ==
    IF empty(combined) THEN {combined}
    ELSE sort_values(Assign(combined, "one_rm",
                            [i \in Rows(combined) |-> OneRm(combined.rows[i])]), "date")

\* os.listdir: the names of the directory in any order.
RECURSIVE Listings(_)
Listings(names) ==
    IF names = {} THEN {<<>>}
    ELSE UNION { { <<n>> \o l : l \in Listings(names \ {n}) } : n \in names }

\* Variant: a name without any of the three prefixes is read as a Hevy file.
FilesRead_unprefixed_as_hevy(src, defaults, ups, listing) ==
    (IF defaults[src].kind # "absent" THEN <<defaults[src]>> ELSE <<>>)
    \o LET mine == SelectSeq(listing, LAMBDA name :
                        name.prefix = src \/ (src = "hevy" /\ name.prefix \notin Sources))
       IN [i \in 1..Len(mine) |-> ups[mine[i]]]

\* Lines 82-99: the files read for a source, the default file first, then the
\* uploads with its prefix in the order os.listdir gives them.
FilesRead(src, defaults, ups, listing) ==
    (IF defaults[src].kind # "absent" THEN <<defaults[src]>> ELSE <<>>)
    \o LET mine == SelectSeq(listing, LAMBDA name : name.prefix = src)
       IN [i \in 1..Len(mine) |-> ups[mine[i]]]

\* Lines 102-104.
SourceFrame(src, defaults, ups, listing) ==
    LET files == FilesRead(src, defaults, ups, listing)
    IN IF files # <<>> THEN concat([i \in 1..Len(files) |-> read_csv(files[i])], FALSE)
       ELSE EmptyDataFrame

Returned(c, h, s, j) ==
    [outcome |-> "returned", combined_df |-> c, hevy_df |-> h, strong_df |-> s, jefit_df |-> j]

Raised(e) ==
    [outcome |-> e, combined_df |-> EmptyDataFrame, hevy_df |-> EmptyDataFrame,
     strong_df |-> EmptyDataFrame, jefit_df |-> EmptyDataFrame]

\* load_data: every result it may give on these files, listed in this order.
load_data(defaults, ups, listing) ==
    LET read(src) == FilesRead(src, defaults, ups, listing)
        h == StandardizeHevy(SourceFrame("hevy", defaults, ups, listing))
        s == StandardizeStrong(SourceFrame("strong", defaults, ups, listing))
        j == StandardizeJefit(SourceFrame("jefit", defaults, ups, listing))
        c == Combine(h.df, s.df, j.df)
    IN IF \E src \in Sources : \E i \in 1..Len(read(src)) : ReadCsvFails(read(src)[i])
       THEN {Raised("EmptyDataError")}
       ELSE IF h.err # "" THEN {Raised(h.err)}
       ELSE IF s.err # "" THEN {Raised(s.err)}
       ELSE IF j.err # "" THEN {Raised(j.err)}
       ELSE IF CombineFails(h.df, s.df, j.df) THEN {Raised("KeyError")}
       ELSE IF ~empty(c) /\ OneRmFails(c) THEN {Raised("TypeError")}
       ELSE { Returned(d, h.df, s.df, j.df) : d \in Derive(c) }

-----------------------------------------------------------------------------
(* workout_dashboard.py: its own load_data, lines 474-535 *)

\* Lines 477-479: what reading a default file raises, "" when it can be read.
DashboardReadError(file) ==
    IF file.kind = "absent" THEN "FileNotFoundError"
    ELSE IF ReadCsvFails(file) THEN "EmptyDataError"
    ELSE ""

\* Lines 475-535: the three default files and nothing else are read, none may
\* be missing, and no stage is passed over for a frame without rows.
dashboard_load_data(defaults) ==
    LET h == HevyColumns(read_csv(defaults["hevy"]))
        s == StrongColumns(read_csv(defaults["strong"]))
        j == JefitRecords(read_csv(defaults["jefit"]))
        lacks(df) == ~(common_columns \subseteq df.cols)
        hc == SelectColumns(h.df, common_columns)
        sc == SelectColumns(s.df, common_columns)
        jc == SelectColumns(j.df, common_columns)
        c == concat(<<hc, sc, jc>>, TRUE)
    IN IF DashboardReadError(defaults["hevy"]) # ""
       THEN {Raised(DashboardReadError(defaults["hevy"]))}
       ELSE IF DashboardReadError(defaults["strong"]) # ""
            THEN {Raised(DashboardReadError(defaults["strong"]))}
       ELSE IF DashboardReadError(defaults["jefit"]) # ""
            THEN {Raised(DashboardReadError(defaults["jefit"]))}
       ELSE IF h.err # "" THEN {Raised(h.err)}
       ELSE IF s.err # "" THEN {Raised(s.err)}
       ELSE IF j.err # "" THEN {Raised(j.err)}
       ELSE IF lacks(h.df) \/ lacks(s.df) \/ lacks(j.df) THEN {Raised("KeyError")}
       ELSE IF OneRmFails(c) THEN {Raised("TypeError")}
       ELSE { Returned(d, hc, sc, jc) :
                d \in sort_values(Assign(c, "one_rm", [i \in Rows(c) |-> OneRm(c.rows[i])]),
                                  "date") }

-----------------------------------------------------------------------------
(* models/workout_analyzer.py.  A query gives [err, df] like a stage above;
   an average is kept as [sum, count], the sum over the count. *)

\* df[mask]: the rows at the positions keep, in their order, labels kept.
Selection(df, keep) ==
    Reorder(df, SelectSeq([i \in Rows(df) |-> i], LAMBDA i : i \in keep))

\* Variant: the exercise is not looked at.
MatchingAnyExercise(df, exercise) == Rows(df)

\* df['exercise'] == exercise, as the positions where it holds.
Matching(df, exercise) == {i \in Rows(df) : df.rows[i]["exercise"] = Str(exercise)}

\* a sorts no later than b, descending; NaN sorts last.
NumGE(a, b) == b.t # "num" \/ (a.t = "num" /\ a.n >= b.n)

\* The orders a descending sort that is not stable may leave the positions S in.
RECURSIVE DescendingOrders(_, _)
DescendingOrders(S, key) ==
    IF S = {} THEN {<<>>}
    ELSE UNION { { <<i>> \o o : o \in DescendingOrders(S \ {i}, key) } :
                 i \in {j \in S : \A k \in S : NumGE(key[j], key[k])} }

\* Variant: the first n rows are taken, whatever their value.
nlargest_first_rows(df, n, column) ==
    { Reorder(df, o) :
        o \in DescendingOrders({i \in Rows(df) : i <= n}, Column(df, column)) }

\* df.nlargest(n, column), keep='first': the n rows of greatest value, of equal
\* values the earlier rows, missing values after all numbers; in descending
\* order, rows of equal value in any order.
nlargest(df, n, column) ==
    LET key == Column(df, column)
        Before(j, i) ==
            IF key[j].t = "num" /\ key[i].t = "num"
            THEN key[j].n > key[i].n \/ (key[j].n = key[i].n /\ j < i)
            ELSE IF key[j].t = "num" THEN TRUE
            ELSE IF key[i].t = "num" THEN FALSE
            ELSE j < i
        taken == {i \in Rows(df) : Cardinality({j \in Rows(df) : Before(j, i)}) < n}
    IN { Reorder(df, o) : o \in DescendingOrders(taken, key) }

\* Series.dt.strftime('%Y-%m-%d') on one cell: the day, the time of day dropped.
Strftime(cell) ==
    IF cell.t = "ts" THEN [t |-> "str", n |-> cell.n \div (24 * 60), s |-> <<"%Y-%m-%d">>]
    ELSE NaN

\* Lines 19-21 on one row.
TopSetDisplay(row) ==
    ("Date" :> Strftime(row["date"])) @@ ("Weight (kg)" :> row["weight"]) @@
    ("Reps" :> row["reps"]) @@ ("1RM (kg)" :> row["one_rm"]) @@ ("App" :> row["source"])

\* Variant: the frame is left in the order it came in.
sort_values_descending_left_unsorted(df, by) == {df}

\* df.sort_values(by, ascending=False): every result it may give.
sort_values_descending(df, by) ==
    { Reorder(df, o) : o \in DescendingOrders(Rows(df), Column(df, by)) }

\* Lines 16-23: every result get_top_sets may give.
get_top_sets(df, exercise, limit) ==
    IF ~({"exercise", "one_rm"} \subseteq df.cols) THEN {Raise("KeyError")}
    ELSE LET matching == Selection(df, Matching(df, exercise))
         IN UNION { { Ok(d) : d \in sort_values_descending(
                                  [cols |-> {"Date", "Weight (kg)", "Reps", "1RM (kg)", "App"},
                                   rows |-> [i \in Rows(top) |-> TopSetDisplay(top.rows[i])],
                                   index |-> top.index], "1RM (kg)") } :
                    top \in nlargest(matching, limit, "one_rm") }

\* Variant: top_sets shares its cells with df, and the assignment of line 19
\* shows in the rows of df it was taken from.
get_top_sets_df_shared(df, exercise, limit) ==
    IF ~({"exercise", "date"} \subseteq df.cols) THEN df
    ELSE Assign(df, "date",
                [i \in Rows(df) |-> IF i \in Matching(df, exercise)
                                     THEN Strftime(df.rows[i]["date"])
                                     ELSE df.rows[i]["date"]])

\* Lines 18-22 as the frame passed in sees them: df[mask] and nlargest give
\* frames of their own, line 19 assigns to top_sets, line 20 copies, so df is
\* left with the records, values and order it came with.
get_top_sets_df(df, exercise, limit) == df

\* Lines 27-36 as the frame passed in sees them: agg, reset_index and
\* sort_values give frames of their own, and line 34 renames the columns of
\* the aggregate.
get_exercise_details_df(df) == df

\* Lines 41-48 as the frame passed in sees them: line 43 reads df.loc and
\* writes nothing.
get_app_comparison_df(df) == df

RECURSIVE SumOver(_, _)
SumOver(S, f) ==
    IF S = {} THEN 0
    ELSE LET i == CHOOSE x \in S : TRUE IN f[i] + SumOver(S \ {i}, f)

\* The positions in S where the cell is a number.
Numbers(cells, S) == {i \in S : cells[i].t = "num"}

\* 'max' over the rows S of a column: the missing values are passed over.
AggMax(cells, S) ==
    LET nums == Numbers(cells, S)
    IN IF nums = {} THEN NaN
       ELSE Num(CHOOSE v \in {cells[i].n : i \in nums} : \A i \in nums : cells[i].n <= v)

\* 'mean' over the rows S of a column: the missing values are passed over.
AggMean(cells, S) ==
    LET nums == Numbers(cells, S)
    IN [sum |-> SumOver(nums, [i \in nums |-> cells[i].n]), count |-> Cardinality(nums)]

\* 'count' over the rows S of a column: the cells that are not missing.
AggCount(cells, S) == Num(Cardinality({i \in S : cells[i].t \notin {"nan", "nat"}}))

\* Variant: every value is counted, equal ones as often as they occur.
AggNuniqueCountsRepeats(cells, S) ==
    Num(Cardinality({k \in S : cells[k].t \notin {"nan", "nat"}}))

\* 'nunique' over the rows S of a column: the distinct values, missing ones apart.
AggNunique(cells, S) ==
    Num(Cardinality({cells[i] : i \in {k \in S : cells[k].t \notin {"nan", "nat"}}}))

\* df.groupby(by): the keys, and the positions of each key's rows.
GroupKeys(df, by) == {df.rows[i][by] : i \in {k \in Rows(df) : df.rows[k][by].t # "nan"}}
Group(df, by, key) == {i \in Rows(df) : df.rows[i][by] = key}

\* Lines 27-35 on one group.
ExerciseRow(df, key) ==
    LET g == Group(df, "exercise", key)
    IN ("Exercise" :> key) @@
       ("Max Weight" :> AggMax(Column(df, "weight"), g)) @@
       ("Avg Weight" :> AggMean(Column(df, "weight"), g)) @@
       ("Max Reps" :> AggMax(Column(df, "reps"), g)) @@
       ("Avg Reps" :> AggMean(Column(df, "reps"), g)) @@
       ("Max 1RM" :> AggMax(Column(df, "one_rm"), g)) @@
       ("Avg 1RM" :> AggMean(Column(df, "one_rm"), g)) @@
       ("Total Sets" :> AggCount(Column(df, "date"), g))

\* The characters of the names in the order str compares them.
Ascii == <<" ", "(", ")", ",", "-">> \o Digits \o UpperCase \o LowerCase
Ord(c) == CHOOSE k \in 1..Len(Ascii) : Ascii[k] = c

\* a < b on str.
RECURSIVE StrLess(_, _)
StrLess(a, b) ==
    IF a = <<>> THEN b # <<>>
    ELSE IF b = <<>> THEN FALSE
    ELSE IF Head(a) = Head(b) THEN StrLess(Tail(a), Tail(b))
    ELSE Ord(Head(a)) < Ord(Head(b))

\* groupby('exercise', sort=True): the exercise names in ascending order.
SortedExercises(keys) ==
    CHOOSE o \in Listings(keys) : \A i \in 1..(Len(o) - 1) : StrLess(o[i].s, o[i + 1].s)

\* Lines 25-37: every result get_exercise_details may give.  The group-by
\* leaves the groups in the order of their keys, which the sort then changes.
get_exercise_details(df) ==
    IF ~({"exercise", "weight", "reps", "one_rm", "date"} \subseteq df.cols)
    THEN {Raise("KeyError")}
    ELSE LET keys == SortedExercises(GroupKeys(df, "exercise"))
             groups == [k \in 1..Len(keys) |-> ExerciseRow(df, keys[k])]
         IN { Ok(d) : d \in sort_values_descending(
                            [cols |-> {"Exercise", "Max Weight", "Avg Weight", "Max Reps",
                                       "Avg Reps", "Max 1RM", "Avg 1RM", "Total Sets"},
                             rows |-> groups, index |-> RangeIndex(Len(groups))],
                            "Max 1RM") }

\* The source tags in the order str compares them.
SourceTags == <<"Hevy", "Jefit", "Strong">>
TagOrd(cell) == CHOOSE k \in 1..Len(SourceTags) : SourceTags[k] = cell.s[1]

\* groupby('source', sort=True): the source tags in ascending order.
SortedSources(keys) ==
    CHOOSE o \in Listings(keys) : \A i \in 1..(Len(o) - 1) : TagOrd(o[i]) < TagOrd(o[i + 1])

\* df.loc[labels, column]: for each label the cell of the row that bears it
\* (the labels of a merged collection are all different, line 155).
Loc(df, labels, column) ==
    [k \in 1..Len(labels) |->
        LET at == {i \in Rows(df) : df.index[i] = labels[k]}
        IN df.rows[CHOOSE i \in at : TRUE][column]]

\* Variant: the mean weight of the group times the sum of its reps.
Volume_of_aggregates(df, g) ==
    LET w == AggMean(Column(df, "weight"), g)
        r == SumOver(Numbers(Column(df, "reps"), g), [i \in g |-> df.rows[i]["reps"].n])
    IN IF w.count = 0 THEN Num(0) ELSE Num((w.sum * r) \div w.count)

\* Line 43 on the group at the positions g: x is the group's weights, and
\* (x * df.loc[x.index, 'reps']).sum() passes over the products that are missing.
Volume(df, g) ==
    LET at == SelectSeq([i \in Rows(df) |-> i], LAMBDA i : i \in g)
        x == [k \in 1..Len(at) |-> df.rows[at[k]]["weight"]]
        reps == Loc(df, [k \in 1..Len(at) |-> df.index[at[k]]], "reps")
        both == {k \in 1..Len(at) : x[k].t = "num" /\ reps[k].t = "num"}
    IN Num(SumOver(both, [k \in both |-> x[k].n * reps[k].n]))

\* Lines 41-48 on one group.
AppRow(df, key) ==
    LET g == Group(df, "source", key)
    IN ("App" :> key) @@
       ("Total Sets" :> AggCount(Column(df, "exercise"), g)) @@
       ("Total Volume" :> Volume(df, g)) @@
       ("Max 1RM" :> AggMax(Column(df, "one_rm"), g)) @@
       ("Workout Days" :> AggNunique(Column(df, "date"), g))

\* Lines 39-49.
get_app_comparison(df) ==
    IF ~({"source", "exercise", "weight", "reps", "one_rm", "date"} \subseteq df.cols)
    THEN {Raise("KeyError")}
    ELSE LET keys == SortedSources(GroupKeys(df, "source"))
         IN { Ok([cols |-> {"App", "Total Sets", "Total Volume", "Max 1RM", "Workout Days"},
                  rows |-> [k \in 1..Len(keys) |-> AppRow(df, keys[k])],
                  index |-> RangeIndex(Len(keys))]) }

\* Variant: ename or logs alone is taken for a Jefit export.
detect_source_type_either_column(file) ==
    IF ReadCsvFails(file.file) THEN None
    ELSE LET sample_df == read_csv(file.file)
         IN IF "exercise_title" \in sample_df.cols THEN "hevy"
            ELSE IF "Exercise Name" \in sample_df.cols THEN "strong"
            ELSE IF "ename" \in sample_df.cols \/ "logs" \in sample_df.cols THEN "jefit"
            ELSE None

\* Variant: the Jefit signature is looked for first, then Strong, then Hevy.
detect_source_type_jefit_first(file) ==
    IF ReadCsvFails(file.file) THEN None
    ELSE LET sample_df == read_csv(file.file)
         IN IF "ename" \in sample_df.cols /\ "logs" \in sample_df.cols THEN "jefit"
            ELSE IF "Exercise Name" \in sample_df.cols THEN "strong"
            ELSE IF "exercise_title" \in sample_df.cols THEN "hevy"
            ELSE None

\* Lines 47-66: the sample cannot be read, or its columns decide.
detect_source_type(file) ==
    IF ReadCsvFails(file.file) THEN None
    ELSE LET sample_df == read_csv(file.file)
         IN IF "exercise_title" \in sample_df.cols THEN "hevy"
            ELSE IF "Exercise Name" \in sample_df.cols THEN "strong"
            ELSE IF "ename" \in sample_df.cols /\ "logs" \in sample_df.cols THEN "jefit"
            ELSE None

\* Lines 42-43: open(file_path, "wb") and write.
WriteFile(ups, name, bytes) ==
    [n \in DOMAIN ups \cup {name} |-> IF n = name THEN bytes ELSE ups[n]]

\* Variant: the file is written before the source type is looked at.
save_uploaded_file_writes_first(ups, file, now) ==
    LET st == detect_source_type(file)
        new_filename == [prefix |-> st, timestamp |-> now, ext |-> file.name[2]]
    IN IF st = None
       THEN [uploads |-> WriteFile(ups, new_filename, file.file), source_type |-> st,
             ret |-> [file_path |-> <<>>,
                      message |-> "Could not determine the workout data source type"]]
       ELSE [uploads |-> WriteFile(ups, new_filename, file.file), source_type |-> st,
             ret |-> [file_path |-> <<new_filename>>, message |-> "File saved as"]]

\* Lines 27-45.  file_path is <<>> for None, else the one name written; now
\* is the clock's second, which strftime puts in the name.
save_uploaded_file(ups, file, now) ==
    LET file_ext == file.name[2]
        st == detect_source_type(file)
        new_filename == [prefix |-> st, timestamp |-> now, ext |-> file_ext]
    IN IF st = None
       THEN [uploads |-> ups, source_type |-> st,
             ret |-> [file_path |-> <<>>,
                      message |-> "Could not determine the workout data source type"]]
       ELSE [uploads |-> WriteFile(ups, new_filename, file.file), source_type |-> st,
             ret |-> [file_path |-> <<new_filename>>, message |-> "File saved as"]]

Upload(stem, file) == [name |-> <<stem, ".csv">>, file |-> file]

\* The files a user uploads: one of each source, one no source matches, and
\* one that cannot be read.  The Strong export carries a one_rm column of its own.
UploadSamples ==
    { Upload("hevy", CsvFile(HevyCols, <<HevyRows[2]>>)),
      Upload("strong", CsvFile(StrongCols \cup {"one_rm"},
                               <<("one_rm" :> Num(1)) @@ StrongRows[2]>>)),
      Upload("jefit", CsvFile(JefitCols, <<JefitRows[3]>>)),
      Upload("other", CsvFile({"ename"}, <<("ename" :> Str(Squat))>>)),
      Upload("nothing", ZeroByteFile) }

-----------------------------------------------------------------------------
(* The state machine *)

NoUpload == [name |-> <<"", "">>, file |-> AbsentFile]
NoReturn == [file_path |-> <<>>, message |-> ""]
NoCache == Raised("not called")
NoLift == [weight |-> 0, reps |-> 0]

DefaultFiles(hf, sf, jf) ==
    [src \in Sources |-> IF src = "hevy" THEN hf ELSE IF src = "strong" THEN sf ELSE jf]

\* Before any call: nothing loaded, nothing sorted, nothing cached.
Started ==
    /\ clock = 1
    /\ last_call = "init"
    /\ outcome = "not called"
    /\ combined_df = EmptyDataFrame
    /\ hevy_df = EmptyDataFrame
    /\ strong_df = EmptyDataFrame
    /\ jefit_df = EmptyDataFrame
    /\ uploaded_file = NoUpload
    /\ source_type = None
    /\ save_ret = NoReturn
    /\ argsort_seen = {}
    /\ cache = NoCache
    /\ lift = NoLift
    /\ one_rm = 0

\* Before any call, with an uploads directory that holds nothing.
Fresh == uploads = <<>> /\ Started

\* No name has been given to the normalizer.
NoName == raw_name = <<>> /\ standard_name = <<>>

\* No query has been made of the analyzer.
NoQuery ==
    /\ analyzed_df = EmptyDataFrame
    /\ call = [op |-> "", exercise |-> <<>>, limit |-> 0]
    /\ result = Ok(EmptyDataFrame)

\* Any default files of at most MaxRows rows together.
Init ==
    /\ \E nh \in 0..MaxRows : \E ns \in 0..(MaxRows - nh) : \E nj \in 0..(MaxRows - nh - ns) :
         \E hf \in FilesWithRows("hevy", nh) :
         \E sf \in FilesWithRows("strong", ns) :
         \E jf \in FilesWithRows("jefit", nj) :
            default_files = DefaultFiles(hf, sf, jf)
    /\ Fresh
    /\ NoName
    /\ NoQuery

RowsOnDisk ==
    LET RECURSIVE Sum(_)
        Sum(names) ==
            IF names = {} THEN 0
            ELSE LET n == CHOOSE x \in names : TRUE
                 IN Len(uploads[n].rows) + Sum(names \ {n})
    IN Len(default_files["hevy"].rows) + Len(default_files["strong"].rows)
       + Len(default_files["jefit"].rows) + Sum(DOMAIN uploads)

\* A second passes.
Tick ==
    /\ clock < MaxClock
    /\ clock' = clock + 1
    /\ UNCHANGED <<default_files, uploads, last_call, load_vars, save_vars, name_vars, query_vars, run_vars, calc_vars>>

\* The names of a directory that bear the prefix of a source.
Prefixed(ups) == {n \in DOMAIN ups : n.prefix \in Sources}

SaveUploadedFile(file) ==
    /\ Cardinality(Prefixed(save_uploaded_file(uploads, file, clock).uploads)) <= MaxUploads
    /\ RowsOnDisk + Len(file.file.rows) <= MaxRows
    /\ LET r == save_uploaded_file(uploads, file, clock)
       IN /\ uploads' = r.uploads
          /\ source_type' = r.source_type
          /\ save_ret' = r.ret
    /\ uploaded_file' = file
    /\ last_call' = "save_uploaded_file"
    /\ UNCHANGED <<default_files, clock, load_vars, name_vars, query_vars, run_vars, calc_vars>>

\* The keys a sort was given and the order it left them in, read off the
\* sorted frame d: its labels are the positions before the sort, from 0.
Argsort(d) ==
    [key |-> [p \in Rows(d) |-> d.rows[CHOOSE k \in Rows(d) : d.index[k] = p - 1]["date"]],
     order |-> [k \in Rows(d) |-> d.index[k] + 1]]

\* kind='quicksort' is not stable, but it is one algorithm: keys it has sorted
\* before come out in the order they came out in then.
SortsAsBefore(d) ==
    \A m \in argsort_seen : m.key = Argsort(d).key => m.order = Argsort(d).order

\* The sorts of keys with equal dates are the ones to remember.
Remember(d) ==
    IF \E i, k \in Rows(d) : i # k /\ d.rows[i]["date"] = d.rows[k]["date"]
    THEN argsort_seen \cup {Argsort(d)}
    ELSE argsort_seen

LoadData ==
    /\ \E listing \in Listings(DOMAIN uploads) :
         \E r \in load_data(default_files, uploads, listing) :
            /\ SortsAsBefore(r.combined_df)
            /\ argsort_seen' = Remember(r.combined_df)
            /\ outcome' = r.outcome
            /\ combined_df' = r.combined_df
            /\ hevy_df' = r.hevy_df
            /\ strong_df' = r.strong_df
            /\ jefit_df' = r.jefit_df
    /\ last_call' = "load_data"
    /\ UNCHANGED <<default_files, uploads, clock, save_vars, name_vars, query_vars, cache, calc_vars>>

\* The pipeline over any default files, with uploads arriving in one second.
Next ==
    \/ \E file \in UploadSamples : SaveUploadedFile(file)
    \/ LoadData

Spec == Init /\ [][Next]_vars

\* The columns the three signatures are made of.
SignatureCols == {"exercise_title", "Exercise Name", "ename", "logs"}

\* Uploads for detection: a header of any of the signature columns without a
\* row, and the samples above.
DetectSamples ==
    { Upload("header", CsvFile(cols, <<>>)) : cols \in SUBSET SignatureCols }
    \cup UploadSamples

\* No default file; everything comes from uploads.
InitUploads ==
    /\ default_files = DefaultFiles(AbsentFile, AbsentFile, AbsentFile)
    /\ Fresh
    /\ NoName
    /\ NoQuery

\* Uploads of every kind over several seconds, and loads between them.
NextUploads ==
    \/ Tick
    \/ \E file \in DetectSamples : SaveUploadedFile(file)
    \/ LoadData

UploadSpec == InitUploads /\ [][NextUploads]_vars

-----------------------------------------------------------------------------
(* Both pipelines over an uploads directory that earlier runs have filled *)

\* The second set of the session of HevyRows[1]: the same start time.
SecondSet ==
    HevyRow(DateText(HevyFormat, 2, 10, 30), Str(BenchPressBarbell), Num(90), Num(5), Num(1))

\* What a stored upload of a source may hold: one row.
StoredContents(src) ==
    CASE src = "hevy" -> {CsvFile(HevyCols, <<HevyRows[1]>>), CsvFile(HevyCols, <<SecondSet>>)}
      [] src = "strong" -> {CsvFile(StrongCols, <<StrongRows[2]>>)}
      [] src = "jefit" -> {CsvFile(JefitCols, <<JefitRows[3]>>)}

\* The names save_uploaded_file gave in the seconds before the clock's first.
StoredNames ==
    { [prefix |-> src, timestamp |-> ts, ext |-> ".csv"] :
        src \in Sources, ts \in (1 - MaxStored)..0 }

\* The uploads directories of at most MaxStored such files.
StoredUploads ==
    UNION { { ups \in [names -> UNION {StoredContents(src) : src \in Sources}] :
                \A n \in names : ups[n] \in StoredContents(n.prefix) } :
            names \in {ns \in SUBSET StoredNames : Cardinality(ns) <= MaxStored} }

\* The default files the dashboard is started with: none, or all three, the
\* Jefit one with a row or without.
StartedWith ==
    { DefaultFiles(AbsentFile, AbsentFile, AbsentFile),
      DefaultFiles(CsvFile(HevyCols, <<>>), CsvFile(StrongCols, <<>>),
                   CsvFile(JefitCols, <<JefitRows[3]>>)),
      DefaultFiles(CsvFile(HevyCols, <<>>), CsvFile(StrongCols, <<>>),
                   CsvFile(JefitCols, <<>>)) }

InitStored ==
    /\ default_files \in StartedWith
    /\ uploads \in StoredUploads
    /\ RowsOnDisk <= MaxRows
    /\ Started
    /\ NoName
    /\ NoQuery

\* Line 537 under @st.cache_data (line 474): the first call that returns is
\* kept, and every later call is answered with what was kept.
DashboardLoadData ==
    /\ IF cache # NoCache
       THEN /\ outcome' = cache.outcome
            /\ combined_df' = cache.combined_df
            /\ hevy_df' = cache.hevy_df
            /\ strong_df' = cache.strong_df
            /\ jefit_df' = cache.jefit_df
            /\ UNCHANGED <<argsort_seen, cache>>
       ELSE \E r \in dashboard_load_data(default_files) :
               /\ SortsAsBefore(r.combined_df)
               /\ argsort_seen' = Remember(r.combined_df)
               /\ outcome' = r.outcome
               /\ combined_df' = r.combined_df
               /\ hevy_df' = r.hevy_df
               /\ strong_df' = r.strong_df
               /\ jefit_df' = r.jefit_df
               /\ cache' = IF r.outcome = "returned" THEN r ELSE NoCache
    /\ last_call' = "dashboard.load_data"
    /\ UNCHANGED <<default_files, uploads, clock, save_vars, name_vars, query_vars, calc_vars>>

NextStored ==
    \/ \E file \in UploadSamples : SaveUploadedFile(file)
    \/ LoadData
    \/ DashboardLoadData

RebuildSpec == InitStored /\ [][NextStored]_vars

-----------------------------------------------------------------------------
(* The analyzer on what load_data returned *)

\* Hevy sets for the queries: a later workout on the day of HevyRows[1] with
\* the same exercise, a set without a start time, and a set as heavy as
\* HevyRows[1] on another day.
QueryHevyRows ==
    << HevyRows[1],
       HevyRow(DateText(HevyFormat, 2, 18, 0), Str(BenchPressBarbell), Num(50), Num(10), Num(1)),
       HevyRow(NaN, Str(Squat), Num(60), Num(8), Num(0)),
       HevyRow(DateText(HevyFormat, 3, 10, 30), Str(BenchPressBarbell), Num(100), Num(5), Num(0)) >>

QueryRows(src) ==
    CASE src = "hevy" -> QueryHevyRows
      [] src = "strong" -> SubSeq(StrongRows, 1, 2)
      [] src = "jefit" -> SubSeq(JefitRows, 1, 2)

\* The files of a source with exactly n of these rows, each at most once;
\* with no row, the file may also be missing.
QueryFilesWithRows(src, n) ==
    { CsvFile(RawCols(src), [i \in 1..n |-> QueryRows(src)[ix[i]]]) :
          ix \in {f \in [1..n -> 1..Len(QueryRows(src))] :
                     \A i, j \in 1..n : f[i] = f[j] => i = j} }
    \cup (IF n = 0 THEN {AbsentFile} ELSE {})

\* The exercises asked for: those of the rows above, and one no row has.
QueriedExercises ==
    { BarbellBenchName, LatPulldownName, Lower(Squat), DumbbellBenchName }

InitQueries ==
    /\ \E nh \in 0..MaxRows : \E ns \in 0..(MaxRows - nh) : \E nj \in 0..(MaxRows - nh - ns) :
         \E hf \in QueryFilesWithRows("hevy", nh) :
         \E sf \in QueryFilesWithRows("strong", ns) :
         \E jf \in QueryFilesWithRows("jefit", nj) :
            default_files = DefaultFiles(hf, sf, jf)
    /\ Fresh
    /\ NoName
    /\ NoQuery

\* load_data has just returned a collection, and no query was made before:
\* the analyzer keeps nothing from one query to the next.
Queryable == last_call = "load_data" /\ outcome = "returned" /\ call.op = ""

\* The statements of the three queries on a frame df: the answer, and what the
\* call leaves of the frame it was passed.
TopSetsOn(df, exercise, limit) ==
    /\ analyzed_df' = get_top_sets_df(df, exercise, limit)
    /\ \E r \in get_top_sets(df, exercise, limit) : result' = r
    /\ call' = [op |-> "get_top_sets", exercise |-> exercise, limit |-> limit]
    /\ last_call' = "get_top_sets"
    /\ UNCHANGED <<default_files, uploads, clock, load_vars, save_vars, name_vars, run_vars, calc_vars>>

ExerciseDetailsOn(df) ==
    /\ analyzed_df' = get_exercise_details_df(df)
    /\ \E r \in get_exercise_details(df) : result' = r
    /\ call' = [op |-> "get_exercise_details", exercise |-> <<>>, limit |-> 0]
    /\ last_call' = "get_exercise_details"
    /\ UNCHANGED <<default_files, uploads, clock, load_vars, save_vars, name_vars, run_vars, calc_vars>>

AppComparisonOn(df) ==
    /\ analyzed_df' = get_app_comparison_df(df)
    /\ \E r \in get_app_comparison(df) : result' = r
    /\ call' = [op |-> "get_app_comparison", exercise |-> <<>>, limit |-> 0]
    /\ last_call' = "get_app_comparison"
    /\ UNCHANGED <<default_files, uploads, clock, load_vars, save_vars, name_vars, run_vars, calc_vars>>

\* The analyzer is given the rows keep of the merged collection: the caller
\* has chosen them by date and by source.
GetTopSets(keep, exercise, limit) ==
    /\ Queryable
    /\ TopSetsOn(Selection(combined_df, keep), exercise, limit)

GetExerciseDetails(keep) ==
    /\ Queryable
    /\ ExerciseDetailsOn(Selection(combined_df, keep))

GetAppComparison(keep) ==
    /\ Queryable
    /\ AppComparisonOn(Selection(combined_df, keep))

NextQueries ==
    \/ LoadData
    \/ \E keep \in SUBSET Rows(combined_df) :
          \E exercise \in QueriedExercises, limit \in 1..MaxLimit :
             GetTopSets(keep, exercise, limit)
    \/ \E keep \in SUBSET Rows(combined_df) : GetExerciseDetails(keep)
    \/ \E keep \in SUBSET Rows(combined_df) : GetAppComparison(keep)

QuerySpec == InitQueries /\ [][NextQueries]_vars

-----------------------------------------------------------------------------
(* Several queries over the frame the caller holds *)

QueryOps == {"get_top_sets", "get_exercise_details", "get_app_comparison"}

\* A query has been made: the caller still holds the frame it passed.
Held == last_call \in QueryOps

GetTopSetsAgain(exercise, limit) ==
    /\ Held
    /\ TopSetsOn(analyzed_df, exercise, limit)

GetExerciseDetailsAgain ==
    /\ Held
    /\ ExerciseDetailsOn(analyzed_df)

GetAppComparisonAgain ==
    /\ Held
    /\ AppComparisonOn(analyzed_df)

NextSequences ==
    \/ NextQueries
    \/ \E exercise \in QueriedExercises, limit \in 1..MaxLimit :
          GetTopSetsAgain(exercise, limit)
    \/ GetExerciseDetailsAgain
    \/ GetAppComparisonAgain

SequenceSpec == InitQueries /\ [][NextSequences]_vars

-----------------------------------------------------------------------------
(* Uploads beside a file the program did not store *)

\* A name in the uploads directory with none of the three prefixes.
NotesName == [prefix |-> "notes", timestamp |-> 0, ext |-> ".csv"]

\* What such a file may hold: no byte, a Hevy row, a Jefit row with a token
\* that does not parse.
NotesContents ==
    { ZeroByteFile, CsvFile(HevyCols, <<HevyRows[1]>>), CsvFile(JefitCols, <<JefitRows[4]>>) }

\* No default file; the uploads directory holds nothing or one such file.
InitRouting ==
    /\ default_files = DefaultFiles(AbsentFile, AbsentFile, AbsentFile)
    /\ uploads \in {<<>>} \cup { (NotesName :> c) : c \in NotesContents }
    /\ Started
    /\ NoName
    /\ NoQuery

NextRouting ==
    \/ \E file \in DetectSamples : SaveUploadedFile(file)
    \/ LoadData

RoutingSpec == InitRouting /\ [][NextRouting]_vars

-----------------------------------------------------------------------------
(* Detection on samples whose signatures overlap *)

\* A CSV file with its header line: the columns in the order they are written.
CsvWithHeader(header, rows) ==
    [kind |-> "csv", cols |-> {header[i] : i \in 1..Len(header)}, rows |-> rows,
     header |-> header]

\* A row with a text in every column, and one that leaves the Hevy and the
\* Strong column empty.
FilledRow(cols) == [c \in cols |-> Str(Squat)]
JefitLikeRow(cols) ==
    [c \in cols |-> IF c \in {"exercise_title", "Exercise Name"} THEN NaN ELSE Str(Squat)]

\* Samples of every set of signature columns, written in every order, without
\* a row and with a row of either kind.
OverlapSamples ==
    UNION { UNION { { Upload("sample", CsvWithHeader(header, rows)) :
                        rows \in {<<>>, <<FilledRow(cols)>>, <<JefitLikeRow(cols)>>} } :
                    header \in Listings(cols) } :
            cols \in SUBSET SignatureCols }

InitDetection ==
    /\ default_files = DefaultFiles(AbsentFile, AbsentFile, AbsentFile)
    /\ Fresh
    /\ NoName
    /\ NoQuery

NextDetection == \E file \in OverlapSamples : SaveUploadedFile(file)

DetectionSpec == InitDetection /\ [][NextDetection]_vars

-----------------------------------------------------------------------------
(* standardize_exercise_name on its own *)

Incline == <<"I","n","c","l","i","n","e"," ">>
BARBELL_BENCH_PRESS == <<"B","A","R","B","E","L","L"," ","B","E","N","C","H"," ","P","R","E","S","S">>
BenchPressDumbbell == <<"B","e","n","c","h"," ","P","r","e","s","s"," ","(","D","u","m","b","b","e","l","l",")">>

\* The pieces exercise names are put together from: each rule's text in some
\* casing, the canonical names, and words no rule knows.
Words ==
    { LatPulldownCable, LatPulldownName, BARBELL_BENCH_PRESS, BenchPressBarbell,
      DumbbellBenchName, BenchPressDumbbell, Incline, Squat }

\* The names of exactly n words.
RECURSIVE NamesOf(_)
NamesOf(n) ==
    IF n = 0 THEN {<<>>}
    ELSE { w \o rest : w \in Words, rest \in NamesOf(n - 1) }

\* The names of one to MaxWords words, and the empty name.
Names == UNION { NamesOf(n) : n \in 0..MaxWords }

InitNames ==
    /\ default_files = DefaultFiles(AbsentFile, AbsentFile, AbsentFile)
    /\ Fresh
    /\ raw_name \in Names
    /\ standard_name = <<>>
    /\ NoQuery

StandardizeExerciseName ==
    /\ standard_name' = standardize_exercise_name(raw_name)
    /\ last_call' = "standardize_exercise_name"
    /\ UNCHANGED <<default_files, uploads, clock, load_vars, save_vars, raw_name, query_vars, run_vars, calc_vars>>

\* The name that came out is given to the normalizer again.
StandardizeAgain ==
    /\ last_call = "standardize_exercise_name"
    /\ raw_name' = standard_name
    /\ standard_name' = standardize_exercise_name(standard_name)
    /\ UNCHANGED <<default_files, uploads, clock, last_call, load_vars, save_vars, query_vars, run_vars, calc_vars>>

NextNames ==
    \/ StandardizeExerciseName
    \/ StandardizeAgain

NameSpec == InitNames /\ [][NextNames]_vars

-----------------------------------------------------------------------------
(* calculate_1rm on its own *)

InitLifts ==
    /\ default_files = DefaultFiles(AbsentFile, AbsentFile, AbsentFile)
    /\ Fresh
    /\ NoName
    /\ NoQuery

\* Whole kilograms and whole reps, those below 0 included: nothing keeps
\* them from the function.
Calculate1Rm(weight, reps) ==
    /\ lift' = [weight |-> weight, reps |-> reps]
    /\ one_rm' = calculate_1rm(weight, reps)
    /\ last_call' = "calculate_1rm"
    /\ UNCHANGED <<default_files, uploads, clock, load_vars, save_vars, name_vars, query_vars, run_vars>>

NextLifts ==
    \E weight \in (0 - MaxWeight)..MaxWeight, reps \in (0 - MaxReps)..MaxReps :
        Calculate1Rm(weight, reps)

LiftSpec == InitLifts /\ [][NextLifts]_vars

-----------------------------------------------------------------------------
(* Properties of load_data *)

\* The last call was load_data and it returned.
Loaded == last_call = "load_data" /\ outcome = "returned"

\* The raw rows on disk of a source, all its files together.
RawRowCount(src) ==
    LET RECURSIVE Sum(_)
        Sum(names) ==
            IF names = {} THEN 0
            ELSE LET n == CHOOSE x \in names : TRUE
                 IN Len(uploads[n].rows) + Sum(names \ {n})
    IN Len(default_files[src].rows) + Sum({m \in DOMAIN uploads : m.prefix = src})

SourceOf(row) == row["source"].s[1]

\* C1: every record of the merged collection has one_rm = weight * (1 + reps/30)
\* of its own weight and reps, whatever its source; a one_rm column of a raw
\* file is not what it holds.  (In thirtieths: one_rm = weight * 30 + weight * reps.)
C1_OneRmFromOwnWeightAndReps ==
    outcome = "returned" =>
        \A i \in Rows(combined_df) :
            LET r == combined_df.rows[i]
            IN /\ SourceOf(r) \in {"Hevy", "Strong", "Jefit"}
               /\ r["one_rm"].t = "num" /\ r["weight"].t = "num" /\ r["reps"].t = "num"
               /\ r["one_rm"].n = r["weight"].n * 30 + r["weight"].n * r["reps"].n

\* A merge of a Strong upload that carries its own one_rm column with a record
\* of another source.
C1_Witness ==
    /\ Loaded
    /\ \E n \in DOMAIN uploads : "one_rm" \in uploads[n].cols /\ uploads[n].rows # <<>>
    /\ \E i, k \in Rows(combined_df) :
          /\ SourceOf(combined_df.rows[i]) = "Strong"
          /\ SourceOf(combined_df.rows[k]) # "Strong"
          /\ combined_df.rows[i]["one_rm"].n > 30 * combined_df.rows[i]["weight"].n

\* C2: the merged collection is ordered non-decreasing by date: of two adjacent
\* records the earlier one's date is at most the later one's.
C2_SortedByDate ==
    outcome = "returned" =>
        \A i \in 1..(Len(combined_df.rows) - 1) :
            /\ combined_df.rows[i]["date"].t = "ts"
            /\ combined_df.rows[i + 1]["date"].t = "ts"
            /\ combined_df.rows[i]["date"].n <= combined_df.rows[i + 1]["date"].n

\* A merge in which the sort moved a record of one source before an earlier
\* placed record of another source.
C2_Witness ==
    /\ Loaded
    /\ \E i \in 1..(Len(combined_df.rows) - 1) :
          /\ combined_df.index[i] > combined_df.index[i + 1]
          /\ combined_df.rows[i]["date"].n < combined_df.rows[i + 1]["date"].n
          /\ SourceOf(combined_df.rows[i]) # SourceOf(combined_df.rows[i + 1])

\* The record of a frame's row i, cut to the common columns.
CommonRecord(df, i) == [c \in common_columns |-> df.rows[i][c]]

\* How many rows of a frame have the common-column values v.
Occurrences(df, v) == Cardinality({i \in Rows(df) : CommonRecord(df, i) = v})

\* C3: the merge neither drops nor deduplicates: the merged collection has as
\* many records as there are Hevy rows, Strong rows and expanded Jefit records,
\* and every record occurs in it as often as in the three source frames together.
C3_MergeKeepsEveryRecord ==
    Loaded =>
        /\ Len(combined_df.rows)
             = RawRowCount("hevy") + RawRowCount("strong") + Len(jefit_df.rows)
        /\ Len(hevy_df.rows) = RawRowCount("hevy")
        /\ Len(strong_df.rows) = RawRowCount("strong")
        /\ \A i \in Rows(combined_df) :
              LET v == CommonRecord(combined_df, i)
              IN Occurrences(combined_df, v)
                   = Occurrences(hevy_df, v) + Occurrences(strong_df, v)
                     + Occurrences(jefit_df, v)

\* A merge that holds the same set twice, once from each of two files.
C3_Witness ==
    /\ Loaded
    /\ \E i, k \in Rows(combined_df) :
          i # k /\ CommonRecord(combined_df, i) = CommonRecord(combined_df, k)

\* C4: the sort is stable: two records of equal date stand in the merged
\* collection in the order they had in the concatenation before the sort
\* (the row label is the position in that concatenation).
C4_SortIsStable ==
    Loaded =>
        \A i, k \in Rows(combined_df) :
            (i < k /\ combined_df.rows[i]["date"] = combined_df.rows[k]["date"])
                => combined_df.index[i] < combined_df.index[k]

-----------------------------------------------------------------------------
(* Properties of the Jefit expander and of the error paths *)

\* The files on disk of a source, by name; the default file goes by a name of
\* its own.
DefaultName(src) == [prefix |-> src, timestamp |-> 0, ext |-> "default"]
FileNames(src) ==
    (IF default_files[src].kind # "absent" THEN {DefaultName(src)} ELSE {})
    \cup {m \in DOMAIN uploads : m.prefix = src}
FileAt(name) == IF name.ext = "default" THEN default_files[name.prefix] ELSE uploads[name]

Tokens(row) == Split(row["logs"].s, ",")
Blank(token) == \A c \in 1..Len(token) : token[c] = " "

\* A token that is "weight x reps": exactly two parts around one x, both numbers.
WeightXReps(token) ==
    /\ Cardinality({c \in 1..Len(token) : token[c] = "x"}) = 1
    /\ \A part \in {Split(token, "x")[1], Split(token, "x")[2]} : FloatOk(part)

\* Every place of a Jefit file on disk that holds a token which is not blank:
\* <<file, row, position of the token counted from 1>>.
JefitSites ==
    UNION { UNION { { <<name, p, i>> :
                        i \in {k \in 1..Len(Tokens(FileAt(name).rows[p])) :
                                  ~Blank(Tokens(FileAt(name).rows[p])[k])} } :
                    p \in 1..Len(FileAt(name).rows) } :
            name \in FileNames("jefit") }

\* The record the expander owes for a site.
JefitExpected(site) ==
    LET row == FileAt(site[1]).rows[site[2]]
        parts == Split(Tokens(row)[site[3]], "x")
    IN ("date" :> ToDatetime(row["mydate"])) @@
       ("exercise" :> Str(standardize_exercise_name(row["ename"].s))) @@
       ("weight" :> Num(Float(parts[1]))) @@ ("reps" :> Num(Float(parts[2]))) @@
       ("set_number" :> Num(site[3])) @@ ("source" :> Str(<<"Jefit">>))

\* C5: for every Jefit row the expander emits exactly one record per token
\* that is not blank and none for a blank one, and the record of the token at
\* zero-based position i has set_number i + 1 (blank tokens consume a position).
C5_OneRecordPerNonBlankToken ==
    Loaded =>
        /\ Len(jefit_df.rows) = Cardinality(JefitSites)
        /\ \A site \in JefitSites :
              Occurrences(jefit_df, JefitExpected(site))
                = Cardinality({o \in JefitSites : JefitExpected(o) = JefitExpected(site)})

\* logs "100x10,,80x12" alone: two records, set_number 1 and 3, 100/10 and 80/12.
C5_Witness ==
    /\ Loaded
    /\ FileNames("jefit") = {DefaultName("jefit")}
    /\ default_files["jefit"].rows = <<JefitRows[1]>>
    /\ Len(jefit_df.rows) = 2
    /\ \E a, b \in Rows(jefit_df) :
          /\ jefit_df.rows[a]["set_number"].n = 1
          /\ jefit_df.rows[a]["weight"].n = 100 /\ jefit_df.rows[a]["reps"].n = 10
          /\ jefit_df.rows[b]["set_number"].n = 3
          /\ jefit_df.rows[b]["weight"].n = 80 /\ jefit_df.rows[b]["reps"].n = 12

IsDateText(cell, formats) == cell.t = "str" /\ cell.s \in {<<f>> : f \in formats}

\* A raw row that is well formed for its source.
WellFormedRow(src, row) ==
    CASE src = "hevy" ->
            /\ IsDateText(row["start_time"], {HevyFormat})
            /\ row["exercise_title"].t = "str"
            /\ \A c \in {"weight_kg", "reps", "set_index"} : row[c].t = "num"
      [] src = "strong" ->
            /\ IsDateText(row["Date"], {HevyFormat, IsoFormat})
            /\ row["Exercise Name"].t = "str"
            /\ \A c \in {"Weight", "Reps", "Set Order"} : row[c].t = "num"
      [] src = "jefit" ->
            /\ IsDateText(row["mydate"], {HevyFormat, IsoFormat})
            /\ row["ename"].t = "str"
            /\ row["logs"].t = "str"
            /\ \A k \in 1..Len(Tokens(row)) :
                  Blank(Tokens(row)[k]) \/ WeightXReps(Tokens(row)[k])

WellFormedSource(src) ==
    \A name \in FileNames(src) :
        /\ FileAt(name).kind = "csv"
        /\ \A p \in 1..Len(FileAt(name).rows) : WellFormedRow(src, FileAt(name).rows[p])

\* A file that contributes no row: a file of no byte, a file of a header
\* alone, or a Jefit file whose tokens are all blank.
ZeroRowFile(src, file) ==
    \/ file.kind = "zero"
    \/ file.rows = <<>>
    \/ /\ src = "jefit"
       /\ \A p \in 1..Len(file.rows) :
             /\ WellFormedRow(src, file.rows[p])
             /\ \A k \in 1..Len(Tokens(file.rows[p])) : Blank(Tokens(file.rows[p])[k])

\* A source that contributes no row: it has no file, or only such files.
ZeroRowSource(src) == \A name \in FileNames(src) : ZeroRowFile(src, FileAt(name))

\* C6: a source that contributes zero rows does not make load_data fail: with
\* every source either well formed or without rows, load_data returns, and it
\* returns an empty collection when no source contributes a row.
C6_ZeroRowSourceDoesNotFail ==
    (last_call = "load_data"
       /\ \A src \in Sources : ZeroRowSource(src) \/ WellFormedSource(src))
    => /\ outcome = "returned"
       /\ (\A src \in Sources : ZeroRowSource(src)) => combined_df.rows = <<>>

HasMalformedRow(src) ==
    \E name \in FileNames(src) :
        \E p \in 1..Len(FileAt(name).rows) : ~WellFormedRow(src, FileAt(name).rows[p])

SourceTag(src) ==
    CASE src = "hevy" -> "Hevy" [] src = "strong" -> "Strong" [] src = "jefit" -> "Jefit"

\* C7: a malformed row aborts the load of its own source only: load_data
\* still returns, with the records of the other sources and none of the
\* source that failed.
C7_MalformedSourceAbortsAlone ==
    (last_call = "load_data"
       /\ (\E src \in Sources : HasMalformedRow(src))
       /\ \A src \in Sources : \A name \in FileNames(src) : FileAt(name).kind = "csv")
    => /\ outcome = "returned"
       /\ \A src \in Sources :
             HasMalformedRow(src) =>
                 \A i \in Rows(combined_df) : SourceOf(combined_df.rows[i]) # SourceTag(src)
       /\ \A src \in {"hevy", "strong"} :
             ~HasMalformedRow(src) =>
                 Cardinality({i \in Rows(combined_df) :
                                 SourceOf(combined_df.rows[i]) = SourceTag(src)})
                   = RawRowCount(src)

\* A Jefit file on disk holds a token that is neither blank nor "weight x reps".
HasBadToken ==
    \E name \in FileNames("jefit") :
        \E p \in 1..Len(FileAt(name).rows) :
            LET row == FileAt(name).rows[p]
            IN /\ row["logs"].t = "str"
               /\ \E k \in 1..Len(Tokens(row)) :
                     ~Blank(Tokens(row)[k]) /\ ~WeightXReps(Tokens(row)[k])

\* Nothing but a Jefit token is wrong with the files on disk.
OnlyTokensBad ==
    /\ WellFormedSource("hevy") /\ WellFormedSource("strong")
    /\ \A name \in FileNames("jefit") :
          /\ FileAt(name).kind = "csv"
          /\ \A p \in 1..Len(FileAt(name).rows) :
                /\ IsDateText(FileAt(name).rows[p]["mydate"], {HevyFormat, IsoFormat})
                /\ FileAt(name).rows[p]["logs"].t = "str"

\* C8: a Jefit token that is not blank and is not two numbers around one x is
\* an error: load_data raises and returns no record, so the token neither
\* yields a record nor is passed over; when nothing else is wrong with the
\* files, what it raises is the ValueError of the token.
C8_BadTokenIsAnError ==
    (last_call = "load_data" /\ HasBadToken)
    => /\ outcome \in {"EmptyDataError", "KeyError", "ValueError", "AttributeError", "TypeError"}
       /\ combined_df.rows = <<>> /\ jefit_df.rows = <<>>
       /\ OnlyTokensBad => outcome = "ValueError"

\* A well-formed Hevy row on disk next to a Jefit row with a bad token.
C8_Witness ==
    /\ last_call = "load_data"
    /\ HasBadToken /\ OnlyTokensBad
    /\ RawRowCount("hevy") > 0
    /\ outcome = "ValueError"

-----------------------------------------------------------------------------
(* Properties of the upload path *)

\* C9: detection never guesses: it answers Hevy only with exercise_title
\* among the sample's columns, Strong only with 'Exercise Name', Jefit only
\* with both ename and logs, and it answers None exactly when the columns
\* match none of the three signatures (a sample that cannot be read has no
\* columns).
C9_DetectionNeverGuesses ==
    LET cols == uploaded_file.file.cols
    IN /\ source_type \in {"hevy", "strong", "jefit", None}
       /\ source_type = "hevy" => "exercise_title" \in cols
       /\ source_type = "strong" => "Exercise Name" \in cols
       /\ source_type = "jefit" => ("ename" \in cols /\ "logs" \in cols)
       /\ source_type = None
            <=> /\ "exercise_title" \notin cols
                /\ "Exercise Name" \notin cols
                /\ ~("ename" \in cols /\ "logs" \in cols)

\* A sample with ename and without logs was uploaded and not recognised.
C9_Witness ==
    /\ last_call = "save_uploaded_file"
    /\ uploaded_file.file.kind = "csv"
    /\ uploaded_file.file.cols = {"ename"}
    /\ source_type = None

\* C10: when detection fails, save_uploaded_file returns a rejection message
\* and no file path, and the stored uploads are what they were.
C10_RejectionStoresNothing ==
    [][(last_call' = "save_uploaded_file" /\ source_type' = None)
          => /\ save_ret'.file_path = <<>>
             /\ save_ret'.message = "Could not determine the workout data source type"
             /\ uploads' = uploads]_vars

\* An upload was rejected while the directory held a stored file.
C10_Witness ==
    /\ last_call = "save_uploaded_file"
    /\ source_type = None
    /\ save_ret.file_path = <<>>
    /\ uploads # <<>>

-----------------------------------------------------------------------------
(* Properties of standardize_exercise_name *)

Standardized == last_call = "standardize_exercise_name"

\* Two characters are the same letter, whatever their case.
SameLetter(a, b) ==
    a = b \/ \E k \in 1..Len(UpperCase) : {a, b} = {UpperCase[k], LowerCase[k]}

\* text occurs in name at some position, case not regarded.
Mentions(name, text) ==
    \E i \in 1..(Len(name) - Len(text) + 1) :
        \A k \in 1..Len(text) : SameLetter(name[i + k - 1], text[k])

\* low is name with every capital letter replaced by its small letter.
LowercaseOf(low, name) ==
    /\ Len(low) = Len(name)
    /\ \A i \in 1..Len(name) :
          /\ SameLetter(low[i], name[i])
          /\ \A k \in 1..Len(UpperCase) : low[i] # UpperCase[k]

\* C11: the normalizer matches without regard to case and the first rule that
\* matches decides: 'lat pulldown' gives 'Lat Pulldown (All Variations)'; else
\* 'barbell bench press' or 'bench press (barbell)' gives 'Barbell Bench Press';
\* else 'dumbbell bench press' or 'bench press (dumbbell)' gives 'Dumbbell Bench
\* Press'; else the result is the name in lower case.
C11_FirstMatchingRuleWins ==
    Standardized =>
        IF Mentions(raw_name, LatPulldownRule)
        THEN standard_name = LatPulldownName
        ELSE IF Mentions(raw_name, BarbellBenchRule) \/ Mentions(raw_name, BenchBarbellRule)
             THEN standard_name = BarbellBenchName
        ELSE IF Mentions(raw_name, DumbbellBenchRule) \/ Mentions(raw_name, BenchDumbbellRule)
             THEN standard_name = DumbbellBenchName
        ELSE LowercaseOf(standard_name, raw_name)

\* A name in capitals that matches the lat pulldown rule and a bench press
\* rule has been normalized.
C11_Witness ==
    /\ Standardized
    /\ Mentions(raw_name, LatPulldownRule)
    /\ Mentions(raw_name, BarbellBenchRule)
    /\ ~Contains(raw_name, BarbellBenchRule)
    /\ standard_name = LatPulldownName

-----------------------------------------------------------------------------
(* Properties of the analyzer *)

\* The last call was this query, on a collection of records: one that has
\* the derived one_rm column, whether or not the caller's choice left rows.
Queried(op) == last_call = op /\ "one_rm" \in analyzed_df.cols

\* The records of the collection whose exercise is the one asked for.
Matches == {i \in Rows(analyzed_df) : analyzed_df.rows[i]["exercise"].s = call.exercise}

\* The record a returned row was made from: the one that bears its label.
RecordOf(k) ==
    analyzed_df.rows[CHOOSE i \in Rows(analyzed_df) : analyzed_df.index[i] = result.df.index[k]]

Min(a, b) == IF a <= b THEN a ELSE b

\* C12: get_top_sets returns exactly min(limit, m) rows, m the number of records
\* of the exercise asked for; the rows come from different matching records;
\* with fewer than limit matches, none included, it returns them all and
\* raises nothing.
C12_TopSetsCount ==
    Queried("get_top_sets") =>
        /\ result.err = ""
        /\ Len(result.df.rows) = Min(call.limit, Cardinality(Matches))
        /\ \A k \in Rows(result.df) :
              \E i \in Matches : analyzed_df.index[i] = result.df.index[k]
        /\ \A k, l \in Rows(result.df) : result.df.index[k] = result.df.index[l] => k = l

\* More records match than the limit allows, beside records of other exercises.
C12_Witness ==
    /\ Queried("get_top_sets")
    /\ Cardinality(Matches) > call.limit
    /\ Matches # Rows(analyzed_df)
    /\ Len(result.df.rows) = call.limit

\* C13: the rows get_top_sets returns are ordered non-increasing by one_rm, no
\* matching record left out has a greater one_rm than a returned one, and each
\* row is its record's calendar day, weight, reps, one_rm and source.
C13_TopSetsAreTheGreatest ==
    Queried("get_top_sets") =>
        /\ \A k \in 1..(Len(result.df.rows) - 1) :
              result.df.rows[k]["1RM (kg)"].n >= result.df.rows[k + 1]["1RM (kg)"].n
        /\ \A k \in Rows(result.df) : \A i \in Matches :
              (\A l \in Rows(result.df) : result.df.index[l] # analyzed_df.index[i])
                  => result.df.rows[k]["1RM (kg)"].n >= analyzed_df.rows[i]["one_rm"].n
        /\ \A k \in Rows(result.df) :
              LET row == result.df.rows[k]
                  rec == RecordOf(k)
              IN /\ DOMAIN row = {"Date", "Weight (kg)", "Reps", "1RM (kg)", "App"}
                 /\ row["Weight (kg)"] = rec["weight"]
                 /\ row["Reps"] = rec["reps"]
                 /\ row["1RM (kg)"] = rec["one_rm"]
                 /\ row["App"] = rec["source"]
                 /\ IF rec["date"].t = "ts"
                    THEN /\ row["Date"].t = "str"
                         /\ row["Date"].n * 24 * 60 <= rec["date"].n
                         /\ rec["date"].n < (row["Date"].n + 1) * 24 * 60
                    ELSE row["Date"].t = "nan"
                 /\ row["1RM (kg)"].t = "num"

\* Two rows were returned, the first strictly greater, a lesser match left out
\* or a time of day dropped.
C13_Witness ==
    /\ Queried("get_top_sets")
    /\ Len(result.df.rows) >= 1
    /\ \E k \in Rows(result.df) : RecordOf(k)["date"].t = "ts" /\ RecordOf(k)["date"].n % (24 * 60) # 0
    /\ \E i \in Matches :
          /\ \A l \in Rows(result.df) : result.df.index[l] # analyzed_df.index[i]
          /\ result.df.rows[1]["1RM (kg)"].n > analyzed_df.rows[i]["one_rm"].n

\* The records of the collection that bear this source.
OfSource(source) == {i \in Rows(analyzed_df) : analyzed_df.rows[i]["source"] = source}

\* C14: in get_app_comparison the total volume of a source is the sum of weight
\* times reps, record by record, over the records of that source and no other.
C14_VolumeIsSummedPerRecord ==
    Queried("get_app_comparison") =>
        /\ result.err = ""
        /\ \A k \in Rows(result.df) :
              LET g == OfSource(result.df.rows[k]["App"])
              IN result.df.rows[k]["Total Volume"].n =
                     SumOver(g, [i \in g |-> analyzed_df.rows[i]["weight"].n
                                             * analyzed_df.rows[i]["reps"].n])

\* A source with two sets of different weight and reps has been summed,
\* beside a record of another source.
C14_Witness ==
    /\ Queried("get_app_comparison")
    /\ Len(result.df.rows) >= 2
    /\ \E k \in Rows(result.df) :
          /\ result.df.rows[k]["Total Volume"].n > 0
          /\ \E i, j \in OfSource(result.df.rows[k]["App"]) :
                /\ analyzed_df.rows[i]["weight"].n # analyzed_df.rows[j]["weight"].n
                /\ analyzed_df.rows[i]["reps"].n # analyzed_df.rows[j]["reps"].n

\* The greatest of the numbers v[i], i in S (S is not empty).
Greatest(S, v) == CHOOSE x \in {v[i] : i \in S} : \A i \in S : v[i] <= x

\* The value of a column in the records at the positions S.
Values(column, S) == [i \in S |-> analyzed_df.rows[i][column].n]

\* C15: get_app_comparison returns exactly one row for each source that has a
\* record in the collection; its record count is the number of records of that
\* source, its max one_rm the greatest one_rm among them, its date count the
\* number of different values of their date; the record counts add up to the
\* size of the collection.
C15_OneRowPerSource ==
    Queried("get_app_comparison") =>
        /\ result.err = ""
        /\ {result.df.rows[k]["App"] : k \in Rows(result.df)}
               = {analyzed_df.rows[i]["source"] : i \in Rows(analyzed_df)}
        /\ \A k, l \in Rows(result.df) :
              result.df.rows[k]["App"] = result.df.rows[l]["App"] => k = l
        /\ \A k \in Rows(result.df) :
              LET g == OfSource(result.df.rows[k]["App"])
                  dated == {i \in g : analyzed_df.rows[i]["date"].t = "ts"}
              IN /\ result.df.rows[k]["Total Sets"].n = Cardinality(g)
                 /\ result.df.rows[k]["Max 1RM"].n = Greatest(g, Values("one_rm", g))
                 /\ result.df.rows[k]["Workout Days"].n
                        = Cardinality({analyzed_df.rows[i]["date"].n : i \in dated})
        /\ SumOver(Rows(result.df), [k \in Rows(result.df) |-> result.df.rows[k]["Total Sets"].n])
               = Len(analyzed_df.rows)

\* Two sources were compared, one of them with two records of one date.
C15_Witness ==
    /\ Queried("get_app_comparison")
    /\ Len(result.df.rows) >= 2
    /\ \E k \in Rows(result.df) :
          /\ result.df.rows[k]["Total Sets"].n = 2
          /\ result.df.rows[k]["Workout Days"].n = 1

\* The records of the collection with this exercise.
OfExercise(exercise) ==
    {i \in Rows(analyzed_df) : analyzed_df.rows[i]["exercise"] = exercise}

\* C16: get_exercise_details returns exactly one row for each exercise of the
\* collection; its max weight, max reps and max one_rm are the greatest among
\* the exercise's records, its mean weight, mean reps and mean one_rm their sum
\* over their number, its record count their number; the record counts add up
\* to the size of the collection.
C16_ExerciseSummary ==
    Queried("get_exercise_details") =>
        /\ result.err = ""
        /\ {result.df.rows[k]["Exercise"] : k \in Rows(result.df)}
               = {analyzed_df.rows[i]["exercise"] : i \in Rows(analyzed_df)}
        /\ \A k, l \in Rows(result.df) :
              result.df.rows[k]["Exercise"] = result.df.rows[l]["Exercise"] => k = l
        /\ \A k \in Rows(result.df) :
              LET row == result.df.rows[k]
                  g == OfExercise(row["Exercise"])
                  Average(column) ==
                      [sum |-> SumOver(g, Values(column, g)), count |-> Cardinality(g)]
              IN /\ row["Max Weight"].n = Greatest(g, Values("weight", g))
                 /\ row["Max Reps"].n = Greatest(g, Values("reps", g))
                 /\ row["Max 1RM"].n = Greatest(g, Values("one_rm", g))
                 /\ row["Avg Weight"] = Average("weight")
                 /\ row["Avg Reps"] = Average("reps")
                 /\ row["Avg 1RM"] = Average("one_rm")
                 /\ row["Total Sets"].n = Cardinality(g)
        /\ SumOver(Rows(result.df), [k \in Rows(result.df) |-> result.df.rows[k]["Total Sets"].n])
               = Len(analyzed_df.rows)

\* C17: the rows of get_exercise_details are ordered non-increasing by max
\* one_rm: of two adjacent rows the earlier one's is at least the later one's.
C17_DetailsSortedByMaxOneRm ==
    Queried("get_exercise_details") =>
        \A k \in 1..(Len(result.df.rows) - 1) :
            /\ result.df.rows[k]["Max 1RM"].t = "num"
            /\ result.df.rows[k + 1]["Max 1RM"].t = "num"
            /\ result.df.rows[k]["Max 1RM"].n >= result.df.rows[k + 1]["Max 1RM"].n

\* The sort moved an exercise with the greater max one_rm before one whose
\* name comes first in the group-by.
C17_Witness ==
    /\ Queried("get_exercise_details")
    /\ \E k \in 1..(Len(result.df.rows) - 1) :
          /\ result.df.rows[k]["Max 1RM"].n > result.df.rows[k + 1]["Max 1RM"].n
          /\ StrLess(result.df.rows[k + 1]["Exercise"].s, result.df.rows[k]["Exercise"].s)

\* C18: on a collection without records, the one load_data returns when no
\* source contributes a row included, each of the three queries returns a
\* result without rows and raises nothing.
C18_EmptyCollectionGivesEmptyResult ==
    (/\ last_call \in {"get_top_sets", "get_exercise_details", "get_app_comparison"}
     /\ analyzed_df.rows = <<>>)
        => result.err = "" /\ result.df.rows = <<>>

-----------------------------------------------------------------------------
(* Properties of repeated invocations *)

\* C19: two invocations of load_data over the same raw files return the same
\* merged collection: the same records in the same order, those of equal date
\* included.
C19_SameFilesSameCollection ==
    [][(/\ last_call = "load_data" /\ outcome = "returned"
        /\ last_call' = "load_data" /\ outcome' = "returned"
        /\ default_files' = default_files /\ uploads' = uploads)
           => combined_df' = combined_df]_vars

\* The records of the merged collection that bear this source tag.
RecordsOf(tag) == {i \in Rows(combined_df) : SourceOf(combined_df.rows[i]) = tag}

\* C20: whenever the pipeline has just returned, from load_data or from the
\* dashboard's load_data, its result is the rebuild over the raw files on disk
\* at that moment: it holds one record for every Hevy row, every Strong row
\* and every Jefit token that is not blank of every default file and every
\* stored upload, and no other record.
C20_EveryInvocationRebuilds ==
    (last_call \in {"load_data", "dashboard.load_data"} /\ outcome = "returned") =>
        /\ Cardinality(RecordsOf("Hevy")) = RawRowCount("hevy")
        /\ Cardinality(RecordsOf("Strong")) = RawRowCount("strong")
        /\ Cardinality(RecordsOf("Jefit")) = Cardinality(JefitSites)
        /\ Len(combined_df.rows)
             = RawRowCount("hevy") + RawRowCount("strong") + Cardinality(JefitSites)

-----------------------------------------------------------------------------
(* Properties of the records *)

\* C21: every record of the merged collection load_data returns has a date and
\* an exercise that are not missing, a weight of at least 0, reps above 0, a
\* set_number of at least 1 and one of the three source tags.
C21_RecordInvariants ==
    Loaded =>
        \A i \in Rows(combined_df) :
            LET r == combined_df.rows[i]
            IN /\ r["date"].t = "ts"
               /\ r["exercise"].t = "str"
               /\ r["weight"].t = "num" /\ r["weight"].n >= 0
               /\ r["reps"].t = "num" /\ r["reps"].n > 0
               /\ r["set_number"].t = "num" /\ r["set_number"].n >= 1
               /\ r["source"] \in {Str(<<"Hevy">>), Str(<<"Strong">>), Str(<<"Jefit">>)}

\* C22: for a weight of at least 0 and reps above 0, calculate_1rm gives at
\* least the weight, and no less than 0 (one_rm is in thirtieths of a kilogram,
\* the weight in kilograms).
C22_OneRmAtLeastWeight ==
    (last_call = "calculate_1rm" /\ lift.weight >= 0 /\ lift.reps > 0) =>
        /\ one_rm >= 30 * lift.weight
        /\ one_rm >= 0

\* A weight above 0 lifted more than once came out greater than itself.
C22_Witness ==
    /\ last_call = "calculate_1rm"
    /\ lift.weight > 0 /\ lift.reps > 1
    /\ one_rm > 30 * lift.weight

-----------------------------------------------------------------------------
(* Properties of the Hevy reader *)

\* Every row of a Hevy file on disk: <<file, row>>.
HevySites ==
    UNION { { <<name, p>> : p \in 1..Len(FileAt(name).rows) } : name \in FileNames("hevy") }

\* What the record of a Hevy row owes to the row: the weight and the reps as
\* they stand, the set index counted from 1.
HevyExpected(site) ==
    LET row == FileAt(site[1]).rows[site[2]]
    IN [weight |-> row["weight_kg"], reps |-> row["reps"],
        set_number |-> Num(row["set_index"].n + 1)]

\* The Hevy records of the merged collection with these three values.
HevyRecords(v) ==
    {i \in RecordsOf("Hevy") :
        [weight |-> combined_df.rows[i]["weight"], reps |-> combined_df.rows[i]["reps"],
         set_number |-> combined_df.rows[i]["set_number"]] = v}

\* C23: every Hevy row yields exactly one record, with the row's weight_kg as
\* weight, the row's reps as reps and the row's set_index plus 1 as set_number:
\* there are as many Hevy records as Hevy rows, and as many with given values
\* as there are rows that owe them.
C23_HevyRowToRecord ==
    Loaded =>
        /\ Cardinality(RecordsOf("Hevy")) = Cardinality(HevySites)
        /\ \A site \in HevySites :
              Cardinality(HevyRecords(HevyExpected(site)))
                = Cardinality({o \in HevySites : HevyExpected(o) = HevyExpected(site)})

\* The row of weight 100 and set index 0 gave a record of weight 100 and
\* set_number 1, beside a row of set index 1.
C23_Witness ==
    /\ Loaded
    /\ \E site \in HevySites :
          HevyExpected(site) = [weight |-> Num(100), reps |-> Num(5), set_number |-> Num(1)]
    /\ \E site \in HevySites : FileAt(site[1]).rows[site[2]]["set_index"] = Num(1)
    /\ \E i \in RecordsOf("Hevy") :
          /\ combined_df.rows[i]["weight"] = Num(100)
          /\ combined_df.rows[i]["set_number"] = Num(1)

-----------------------------------------------------------------------------
(* Properties of sequences of queries *)

\* The answers a query gives on a frame, run alone.
Answers(c, df) ==
    CASE c.op = "get_top_sets" -> get_top_sets(df, c.exercise, c.limit)
      [] c.op = "get_exercise_details" -> get_exercise_details(df)
      [] c.op = "get_app_comparison" -> get_app_comparison(df)

-----------------------------------------------------------------------------
(* Properties of the dates *)

\* The calendar day of a timestamp.
DayOf(cell) == cell.n \div (24 * 60)

\* C25: the time of day is not distinguished: in get_app_comparison the date
\* count of a source is the number of different calendar days of its records,
\* so two Hevy records of one day at different hours count as one date.
C25_SameDayCountsOnce ==
    Queried("get_app_comparison") =>
        \A k \in Rows(result.df) :
            LET g == OfSource(result.df.rows[k]["App"])
                dated == {i \in g : analyzed_df.rows[i]["date"].t = "ts"}
            IN result.df.rows[k]["Workout Days"].n
                   = Cardinality({DayOf(analyzed_df.rows[i]["date"]) : i \in dated})

-----------------------------------------------------------------------------
(* Properties of the stored uploads *)

\* C26: a stored upload is never overwritten: every save_uploaded_file that
\* detects a source writes to a path no stored file has, two uploads of one
\* source and extension within one second included, so each such call adds one
\* file to the stored ones and leaves the others as they were.  (A step that
\* ends in save_uploaded_file without the clock moving is such a call.)
C26_UploadsNeverOverwritten ==
    [][(last_call' = "save_uploaded_file" /\ clock' = clock /\ source_type' # None) =>
          /\ save_ret'.file_path[1] \notin DOMAIN uploads
          /\ Cardinality(DOMAIN uploads') = Cardinality(DOMAIN uploads) + 1
          /\ \A n \in DOMAIN uploads : uploads'[n] = uploads[n]]_vars

-----------------------------------------------------------------------------
(* Properties of the routing of uploads *)

\* C27: routing follows detection.  The file save_uploaded_file stored after
\* detecting a source bears that source's prefix and holds the upload's bytes;
\* every load_data reads each stored file with the reader of its prefix and no
\* other, so that the records of each tag are as many as the rows of the files
\* of that source; and a file whose name has none of the three prefixes gives
\* no record and no failure: with the files of the three sources well formed,
\* load_data returns.
C27_RoutingFollowsDetection ==
    /\ (last_call = "save_uploaded_file" /\ source_type # None) =>
          /\ save_ret.file_path[1].prefix = source_type
          /\ save_ret.file_path[1] \in DOMAIN uploads
          /\ uploads[save_ret.file_path[1]] = uploaded_file.file
    /\ (last_call = "load_data" /\ \A src \in Sources : WellFormedSource(src)) =>
          outcome = "returned"
    /\ Loaded =>
          /\ Cardinality(RecordsOf("Hevy")) = RawRowCount("hevy")
          /\ Cardinality(RecordsOf("Strong")) = RawRowCount("strong")
          /\ Cardinality(RecordsOf("Jefit")) = Cardinality(JefitSites)
          /\ \A i \in Rows(combined_df) :
                SourceOf(combined_df.rows[i]) \in {"Hevy", "Strong", "Jefit"}

\* load_data returned the records of a stored Strong upload, all tagged
\* Strong, from a directory that also holds a file without a prefix.
C27_Witness ==
    /\ Loaded
    /\ NotesName \in DOMAIN uploads
    /\ \E n \in DOMAIN uploads :
          /\ n.prefix = "strong"
          /\ uploads[n].rows # <<>>
          /\ Cardinality(RecordsOf("Strong")) = Len(uploads[n].rows)
    /\ Len(combined_df.rows) = Cardinality(RecordsOf("Strong"))

-----------------------------------------------------------------------------
(* Properties of repeated normalization *)

\* C28: standardize_exercise_name is idempotent: given the name it gave, it
\* gives that name again, for the three canonical names and for a name in
\* lower case that no rule matches.
C28_NormalizerIsIdempotent ==
    [][(/\ last_call = "standardize_exercise_name"
        /\ last_call' = "standardize_exercise_name"
        /\ raw_name' = standard_name)
           => standard_name' = standard_name]_vars

\* 'Barbell Bench Press', which only the normalizer writes so, has been
\* normalized again.
C28_Witness ==
    /\ Standardized
    /\ raw_name = BarbellBenchName
    /\ standard_name = BarbellBenchName

-----------------------------------------------------------------------------
(* Properties of detection on overlapping signatures *)

\* C29: detection has a fixed precedence: a sample with exercise_title is
\* Hevy whatever else it has; without it, a sample with 'Exercise Name' is
\* Strong even with ename and logs; without either, ename and logs together
\* make it Jefit; else it is not recognised.  The answer is decided by which
\* columns the sample has, in whatever order they are written and whatever
\* its rows hold.
C29_DetectionPrecedence ==
    (last_call = "save_uploaded_file" /\ uploaded_file.file.kind = "csv") =>
        LET has(column) ==
                \E i \in 1..Len(uploaded_file.file.header) :
                    uploaded_file.file.header[i] = column
        IN source_type =
              IF has("exercise_title") THEN "hevy"
              ELSE IF has("Exercise Name") THEN "strong"
              ELSE IF has("ename") /\ has("logs") THEN "jefit"
              ELSE None

\* A sample with all four columns, exercise_title written last and empty in
\* its one row, was taken for Hevy.
C29_Witness ==
    /\ last_call = "save_uploaded_file"
    /\ uploaded_file.file.kind = "csv"
    /\ Len(uploaded_file.file.header) = 4
    /\ uploaded_file.file.header[4] = "exercise_title"
    /\ uploaded_file.file.rows # <<>>
    /\ uploaded_file.file.rows[1]["exercise_title"] = NaN
    /\ source_type = "hevy"

====
